---------------------------- MODULE Spec2Model ----------------------------
(***************************************************************************)
(* A model of the Grazioso Salvare rescue-candidate pipeline:              *)
(*   data_helpers.py    parse_age_to_weeks, normalize_sex_intact,          *)
(*                      breed_matches_rescue_type, normalize_dataframe     *)
(*   rescue_filters.py  water/mountain/disaster/reset filters and the      *)
(*                      apply_rescue_filter dispatcher                     *)
(*                                                                         *)
(* Python values are tagged records ([t |-> "str", s |-> ...], None, a     *)
(* float).  A Python str is a TLA+ string; its characters are read with    *)
(* SubSeq(s, i, i).  A float is an exact rational n/d in lowest terms      *)
(* (d > 0): the products and quotients the code forms are modelled         *)
(* exactly, without IEEE-754 rounding.  The outcome of a call is either    *)
(* Return(v) or Raise(exc, msg).                                           *)
(***************************************************************************)
EXTENDS Integers, Sequences, FiniteSets, TLC

VARIABLES
    age_arg,      \* the argument of the current parse_age_to_weeks call
    age_case,     \* how age_arg was written: the parts it was formatted from
    age_ret,      \* the outcome of that call, or Pending before it ran
    raw_df,       \* the batch as loaded: the argument of normalize_dataframe
    norm_ret,     \* the outcome of normalize_dataframe(raw_df), or Pending
    df,           \* the batch the caller filters (None while there is none)
    filter_case,  \* how filter_type was written: name, letter case, padding
    filter_type,  \* the filter_type argument of the last apply_rescue_filter
    filter_ret,   \* the outcome of that call, or Pending before any call
    call,         \* a call of one of the other helpers: its name and arguments
    call_ret,     \* the outcome of that call, or Pending before it ran
    heap,         \* the DataFrame objects that exist: object id -> contents
    arg_ref,      \* the id of the object passed to normalize_dataframe
    ret_ref,      \* the outcome of that call: Return(id), Raise or Pending
    expected,     \* what the caller's own records say the two batches hold
    collection,   \* the documents of the 'animals' collection, in insertion order
    op,           \* the last AnimalShelter call: its name and arguments
    op_ret,       \* what that call returned, or Pending before any call
    procs         \* clients inside create: each one's position, data and locals

ageVars    == <<age_arg, age_case, age_ret>>
batchVars  == <<raw_df, norm_ret, df>>
filterVars == <<filter_case, filter_type, filter_ret>>
helperVars == <<call, call_ret>>
copyVars   == <<heap, arg_ref, ret_ref, expected>>
storeVars  == <<collection, op, op_ret, procs>>
vars       == <<ageVars, batchVars, filterVars, helperVars, copyVars, storeVars>>

-----------------------------------------------------------------------------
(* Bounds of the model *)

\* most whitespace characters put around an input string
MaxPad == 1
\* largest whole number written into a generated age string
MaxWhole == 3
\* longest string of the exhaustive part of the age inputs
MaxLen == 4
\* most rows of a hand-built normalized batch
MaxRows == 2
\* most rows of a raw batch that goes through normalize_dataframe
MaxRawRows == 3
\* most documents the collection holds
MaxDocs == 2

-----------------------------------------------------------------------------
(* Python values and call outcomes *)

None        == [t |-> "None"]
Str(s)      == [t |-> "str", s |-> s]
PyInt(v)    == [t |-> "int", v |-> v]
EmptyList   == [t |-> "list"]

Pending        == [kind |-> "pending"]
Return(v)      == [kind |-> "return", value |-> v]
Raise(e, m)    == [kind |-> "raise", exc |-> e, msg |-> m]

isinstance_str(x) == x.t = "str"

\* a Python dict: items is a function from its keys to their values
Dict(items) == [t |-> "dict", items |-> items]
\* a Python list with elements
PyList(items) == [t |-> "list", items |-> items]
EmptyDoc == [k \in {} |-> None]
Keys(d) == DOMAIN d.items

isinstance_dict(x) == x.t = "dict"

\* bool(x)
Truthy(x) ==
    CASE x.t = "None" -> FALSE
      [] x.t = "str"  -> x.s # ""
      [] x.t = "int"  -> x.v # 0
      [] x.t = "bool" -> x.v
      [] x.t = "list" -> x # EmptyList
      [] x.t = "dict" -> Keys(x) # {}
      [] OTHER        -> TRUE

\* dict.get(key): the value, or None when the key is absent
dict_get(d, key) == IF key \in Keys(d) THEN d.items[key] ELSE None

\* a key a record may lack, and the items a field adds to a record
Absent == [t |-> "absent"]
Field(name, value) == IF value = Absent THEN EmptyDoc ELSE name :> value


RECURSIVE GCD(_, _)
GCD(a, b) == IF b = 0 THEN a ELSE GCD(b, a % b)

\* the float n/d (d > 0, n >= 0), kept in lowest terms so that equal numbers
\* are equal records
Float(n, d) == LET g == GCD(n, d) IN [t |-> "float", n |-> n \div g, d |-> d \div g]

FloatMul(a, b) == Float(a.n * b.n, a.d * b.d)
FloatDiv(a, b) == Float(a.n * b.d, a.d * b.n)
FloatLE(a, b)  == a.n * b.d <= b.n * a.d
FloatGE(a, b)  == FloatLE(b, a)

-----------------------------------------------------------------------------
(* str methods *)

CharAt(s, i) == SubSeq(s, i, i)

Whitespace == {" ", "\t"}
Digits     == {"0", "1", "2", "3", "4", "5", "6", "7", "8", "9"}

UpperLetters == <<"A", "B", "C", "D", "E", "F", "G", "H", "I", "J", "K", "L", "M",
                  "N", "O", "P", "Q", "R", "S", "T", "U", "V", "W", "X", "Y", "Z">>
LowerLetters == <<"a", "b", "c", "d", "e", "f", "g", "h", "i", "j", "k", "l", "m",
                  "n", "o", "p", "q", "r", "s", "t", "u", "v", "w", "x", "y", "z">>

\* c.lower() and c.upper() of one character, as tables
ToLower == [c \in {UpperLetters[k] : k \in 1..26} |->
              LowerLetters[CHOOSE k \in 1..26 : UpperLetters[k] = c]]

ToUpper == [c \in {LowerLetters[k] : k \in 1..26} |->
              UpperLetters[CHOOSE k \in 1..26 : LowerLetters[k] = c]]

char_lower(c) == IF c \in DOMAIN ToLower THEN ToLower[c] ELSE c

char_upper(c) == IF c \in DOMAIN ToUpper THEN ToUpper[c] ELSE c

RECURSIVE str_lower(_)
str_lower(s) ==
    IF s = "" THEN "" ELSE char_lower(CharAt(s, 1)) \o str_lower(SubSeq(s, 2, Len(s)))

RECURSIVE str_upper(_)
str_upper(s) ==
    IF s = "" THEN "" ELSE char_upper(CharAt(s, 1)) \o str_upper(SubSeq(s, 2, Len(s)))

RECURSIVE str_lstrip(_)
str_lstrip(s) ==
    IF s # "" /\ CharAt(s, 1) \in Whitespace THEN str_lstrip(SubSeq(s, 2, Len(s))) ELSE s

RECURSIVE str_rstrip(_)
str_rstrip(s) ==
    IF s # "" /\ CharAt(s, Len(s)) \in Whitespace
    THEN str_rstrip(SubSeq(s, 1, Len(s) - 1))
    ELSE s

str_strip(s) == str_rstrip(str_lstrip(s))

\* t in s
\* t == s in place of t in s
str_contains_Exact(s, t) == s = t

str_contains(s, t) ==
    \E i \in 1..(Len(s) - Len(t) + 1) : SubSeq(s, i, i + Len(t) - 1) = t

\* s.startswith(t, i - 1): t occurs in s at (1-based) position i
StartsWithAt(s, i, t) ==
    i + Len(t) - 1 <= Len(s) /\ SubSeq(s, i, i + Len(t) - 1) = t

-----------------------------------------------------------------------------
(* data_helpers.parse_age_to_weeks *)

\* the end of the longest run of digits of s that starts at i (i - 1 when
\* s[i] is no digit): what a greedy \d+ consumes
RECURSIVE DigitsEnd(_, _)
DigitsEnd(s, i) ==
    IF i <= Len(s) /\ CharAt(s, i) \in Digits THEN DigitsEnd(s, i + 1) ELSE i - 1

\* SkipSpace without its loop: the pattern with \s* left out
SkipSpace_Dropped(s, i) == i

\* the first position at or after i that holds no whitespace: where \s* stops
RECURSIVE SkipSpace(_, _)
SkipSpace(s, i) ==
    IF i <= Len(s) /\ CharAt(s, i) \in Whitespace THEN SkipSpace(s, i + 1) ELSE i

\* the alternation (year|month|week|day), tried in this order
AgeUnits == <<"year", "month", "week", "day">>

NoMatch == [matched |-> FALSE]

\* re.match(r'(\d+(?:\.\d+)?)\s*(year|month|week|day)s?', s): anchored at the
\* start of s only.  Backtracking finds nothing the greedy scan misses: after
\* a shorter \d+ the next character is a digit, and after a dropped fraction
\* it is ".", neither of which begins \s* or a unit.
re_match_age(s) ==
    LET whole_end == DigitsEnd(s, 1)
        frac_end  == DigitsEnd(s, whole_end + 2)
        has_frac  == /\ whole_end + 1 <= Len(s)
                     /\ CharAt(s, whole_end + 1) = "."
                     /\ frac_end >= whole_end + 2
        num_end   == IF has_frac THEN frac_end ELSE whole_end
        unit_at   == SkipSpace(s, num_end + 1)
        found     == {k \in 1..Len(AgeUnits) : StartsWithAt(s, unit_at, AgeUnits[k])}
    IN  IF whole_end < 1 \/ found = {}
        THEN NoMatch
        ELSE LET unit == AgeUnits[CHOOSE k \in found : \A j \in found : k <= j]
                 after == unit_at + Len(unit)
             IN  [matched |-> TRUE,
                  group1  |-> SubSeq(s, 1, num_end),
                  group2  |-> unit,
                  \* the optional trailing s
                  end     |-> IF StartsWithAt(s, after, "s") THEN after ELSE after - 1]

DigitValue(c) == CHOOSE v \in 0..9 : SubSeq("0123456789", v + 1, v + 1) = c

\* int() of a string of digits
RECURSIVE DigitsToNat(_)
DigitsToNat(s) ==
    IF s = "" THEN 0
    ELSE 10 * DigitsToNat(SubSeq(s, 1, Len(s) - 1)) + DigitValue(CharAt(s, Len(s)))

RECURSIVE Pow10(_)
Pow10(k) == IF k = 0 THEN 1 ELSE 10 * Pow10(k - 1)

\* float() of a string  digits [ "." digits ]
float_of_decimal(s) ==
    LET whole_end == DigitsEnd(s, 1)
    IN  IF whole_end = Len(s)
        THEN Float(DigitsToNat(s), 1)
        ELSE LET frac == SubSeq(s, whole_end + 2, Len(s))
             IN  Float(DigitsToNat(SubSeq(s, 1, whole_end)) * Pow10(Len(frac))
                          + DigitsToNat(frac),
                       Pow10(Len(frac)))

\* the conversion constants of lines 63-69, in thousandths
WeeksPerYearMilli  == 52143
WeeksPerMonthMilli == 4345
DaysPerWeek        == 7

\* WeeksOf with a month of 4.333 weeks (52 / 12) in place of 4.345
WeeksOf_RoundMonth(value, unit) ==
    CASE unit = "year"  -> FloatMul(value, Float(WeeksPerYearMilli, 1000))
      [] unit = "month" -> FloatMul(value, Float(4333, 1000))
      [] unit = "week"  -> value
      [] unit = "day"   -> FloatDiv(value, Float(DaysPerWeek, 1))
      [] OTHER          -> None

WeeksOf(value, unit) ==
    CASE unit = "year"  -> FloatMul(value, Float(WeeksPerYearMilli, 1000))
      [] unit = "month" -> FloatMul(value, Float(WeeksPerMonthMilli, 1000))
      [] unit = "week"  -> value
      [] unit = "day"   -> FloatDiv(value, Float(DaysPerWeek, 1))
      [] OTHER          -> None

\* the guard of line 39 without its isinstance test
AgeArgRejected_NoneOnly(age_str) == age_str = None

\* the guard of line 39
AgeArgRejected(age_str) == age_str = None \/ ~isinstance_str(age_str)

parse_age_to_weeks(age_str) ==
    IF AgeArgRejected(age_str)
    THEN Return(None)
    ELSE IF ~isinstance_str(age_str)
    \* .strip() of a value that has no such method
    THEN Raise("AttributeError", "")
    ELSE LET s == str_lower(str_strip(age_str.s))
         IN  IF s = ""
             THEN Return(None)
             ELSE LET match == re_match_age(s)
                  IN  IF ~match.matched
                      THEN Return(None)
                      ELSE LET value == float_of_decimal(match.group1)
                           IN  IF value.n <= 0
                               THEN Return(None)
                               ELSE Return(WeeksOf(value, match.group2))

-----------------------------------------------------------------------------
(* data_helpers.breed_matches_rescue_type *)

water_breeds == {"labrador retriever", "chesapeake bay retriever", "newfoundland"}

mountain_breeds ==
    {"german shepherd", "alaskan malamute", "old english sheepdog", "siberian husky",
     "rottweiler"}

disaster_breeds ==
    {"doberman pinscher", "german shepherd", "golden retriever", "bloodhound",
     "rottweiler"}

\* breed and rescue_type are Python values; rescue_type is always a str
breed_matches_rescue_type(breed, rescue_type) ==
    IF breed = None \/ ~isinstance_str(breed)
    THEN FALSE
    ELSE LET b  == str_lower(str_strip(breed.s))
             rt == str_lower(str_strip(rescue_type.s))
         IN  IF b = ""
             THEN FALSE
             ELSE CASE rt = "water"    -> \E target \in water_breeds : str_contains(b, target)
                    [] rt = "mountain" -> \E target \in mountain_breeds : str_contains(b, target)
                    [] rt \in {"disaster", "tracking"} ->
                                          \E target \in disaster_breeds : str_contains(b, target)
                    [] OTHER           -> FALSE

\* the breed cells of the model's batches
ModelBreeds ==
    {Str("Labrador Retriever Mix"), Str("German Shepherd"), Str("Doberman Pinscher"),
     Str("Poodle"), None}

\* breed_matches_rescue_type tabulated over ModelBreeds and the three rescue
\* types the filters pass, so that it is evaluated once per breed and not once
\* per row of every batch
BreedMatchTable ==
    [b \in ModelBreeds |->
        [rt \in {"water", "mountain", "disaster"} |->
            breed_matches_rescue_type(b, Str(rt))]]

\* lambda b: breed_matches_rescue_type(b, rt)
BreedMatches(b, rt) ==
    IF b \in ModelBreeds THEN BreedMatchTable[b][rt]
    ELSE breed_matches_rescue_type(b, Str(rt))

-----------------------------------------------------------------------------
(* A DataFrame: its column labels and its rows in positional order.  A row is a
   function from column label to cell value.  A Series is the sequence of one
   column's cells, or of the booleans of a mask. *)

DataFrame(columns, rows) == [columns |-> columns, rows |-> rows]

HasColumn(d, col) == \E k \in 1..Len(d.columns) : d.columns[k] = col

\* df[col]
Column(d, col) == [i \in 1..Len(d.rows) |-> d.rows[i][col]]

\* series.apply(f), f a predicate
SeriesApply(series, f(_)) == [i \in 1..Len(series) |-> f(series[i])]

\* series == text: elementwise; a missing cell equals no string
SeriesEq(series, text) == [i \in 1..Len(series) |-> series[i] = Str(text)]

IsNull(cell) == cell = None

\* SeriesGE with > in place of >=
SeriesGE_Strict(series, k) ==
    [i \in 1..Len(series) |-> ~IsNull(series[i]) /\ ~FloatLE(series[i], Float(k, 1))]

\* series >= k: elementwise; a comparison with a missing cell (None, NaN) is
\* False, it does not raise
SeriesGE(series, k) ==
    [i \in 1..Len(series) |-> ~IsNull(series[i]) /\ FloatGE(series[i], Float(k, 1))]

\* series <= k: elementwise, False for a missing cell
SeriesLE(series, k) ==
    [i \in 1..Len(series) |-> ~IsNull(series[i]) /\ FloatLE(series[i], Float(k, 1))]

\* MaskAnd with | in place of &
MaskAnd_Or(m1, m2) == [i \in 1..Len(m1) |-> m1[i] \/ m2[i]]

\* m1 & m2
MaskAnd(m1, m2) == [i \in 1..Len(m1) |-> m1[i] /\ m2[i]]

\* the rows of a mask, last row first
RECURSIVE TakeRows_Reversed(_, _, _)
TakeRows_Reversed(rows, mask, i) ==
    IF i > Len(rows) THEN <<>>
    ELSE TakeRows_Reversed(rows, mask, i + 1) \o (IF mask[i] THEN <<rows[i]>> ELSE <<>>)

RECURSIVE TakeRows(_, _, _)
TakeRows(rows, mask, i) ==
    IF i > Len(rows) THEN <<>>
    ELSE (IF mask[i] THEN <<rows[i]>> ELSE <<>>) \o TakeRows(rows, mask, i + 1)

\* df[mask]: the rows whose mask entry is True, in their order, all columns
\* the selection that loses its first row
BoolIndex_DropHead(d, mask) ==
    DataFrame(d.columns,
              IF TakeRows(d.rows, mask, 1) = <<>> THEN <<>>
              ELSE Tail(TakeRows(d.rows, mask, 1)))

BoolIndex(d, mask) == DataFrame(d.columns, TakeRows(d.rows, mask, 1))

-----------------------------------------------------------------------------
(* rescue_filters *)

\* the columns a filter's mask reads, in the order the expression reads them
MaskColumns == <<"breed", "sex", "intact_status", "age_weeks">>

NoFailure == [kind |-> "none"]

\* OrderedCells for plain Python comparison, where None >= 26 is a TypeError
OrderedCells_NullRaises(series) == \A i \in 1..Len(series) : series[i].t = "float"

\* whether series >= k and series <= k evaluate: they do for numbers and for
\* missing cells, and raise TypeError for any other cell (a str)
OrderedCells(series) ==
    \A i \in 1..Len(series) : IsNull(series[i]) \/ series[i].t = "float"

\* the exception that evaluating a filter's mask raises, if any: KeyError for
\* the first column of the mask that d lacks, TypeError for an age cell that
\* is not ordered against a number
MaskFailure(d) ==
    LET missing == {k \in 1..Len(MaskColumns) : ~HasColumn(d, MaskColumns[k])}
    IN  IF missing # {}
        THEN Raise("KeyError", MaskColumns[CHOOSE k \in missing : \A j \in missing : k <= j])
        ELSE IF ~OrderedCells(Column(d, "age_weeks"))
        THEN Raise("TypeError", "")
        ELSE NoFailure

water_rescue_filter(d) ==
    IF MaskFailure(d) # NoFailure THEN MaskFailure(d)
    ELSE Return(BoolIndex(d,
        MaskAnd(MaskAnd(MaskAnd(MaskAnd(
            SeriesApply(Column(d, "breed"),
                        LAMBDA b : BreedMatches(b, "water")),
            SeriesEq(Column(d, "sex"), "Female")),
            SeriesEq(Column(d, "intact_status"), "Intact")),
            SeriesGE(Column(d, "age_weeks"), 26)),
            SeriesLE(Column(d, "age_weeks"), 156))))

mountain_rescue_filter(d) ==
    IF MaskFailure(d) # NoFailure THEN MaskFailure(d)
    ELSE Return(BoolIndex(d,
        MaskAnd(MaskAnd(MaskAnd(MaskAnd(
            SeriesApply(Column(d, "breed"),
                        LAMBDA b : BreedMatches(b, "mountain")),
            SeriesEq(Column(d, "sex"), "Male")),
            SeriesEq(Column(d, "intact_status"), "Intact")),
            SeriesGE(Column(d, "age_weeks"), 26)),
            SeriesLE(Column(d, "age_weeks"), 156))))

disaster_rescue_filter(d) ==
    IF MaskFailure(d) # NoFailure THEN MaskFailure(d)
    ELSE Return(BoolIndex(d,
        MaskAnd(MaskAnd(MaskAnd(MaskAnd(
            SeriesApply(Column(d, "breed"),
                        LAMBDA b : BreedMatches(b, "disaster")),
            SeriesEq(Column(d, "sex"), "Male")),
            SeriesEq(Column(d, "intact_status"), "Intact")),
            SeriesGE(Column(d, "age_weeks"), 20)),
            SeriesLE(Column(d, "age_weeks"), 300))))

\* reset_filter that drops the rows without an age
reset_filter_DropMissing(d) ==
    Return(BoolIndex(d, [i \in 1..Len(d.rows) |-> ~IsNull(d.rows[i]["age_weeks"])]))

reset_filter(d) == Return(d)

InvalidFilterMessage(ft) ==
    "Invalid filter type: '" \o ft \o "'. "
      \o "Valid options: water, mountain, disaster, tracking, reset"

\* NormalizeFilterType without strip()
NormalizeFilterType_NoStrip(text) == str_lower(text)

\* line 170
NormalizeFilterType(text) == str_lower(str_strip(text))

\* apply_rescue_filter whose default case shows everything instead of raising
apply_rescue_filter_Lenient(d, filter_name) ==
    LET ft == NormalizeFilterType(filter_name.s)
    IN  CASE ft = "water"                      -> water_rescue_filter(d)
          [] ft \in {"mountain", "wilderness"} -> mountain_rescue_filter(d)
          [] ft \in {"disaster", "tracking"}   -> disaster_rescue_filter(d)
          [] OTHER                             -> reset_filter(d)

\* d a DataFrame, filter_name a str
apply_rescue_filter(d, filter_name) ==
    LET ft == NormalizeFilterType(filter_name.s)
    IN  CASE ft = "water"                      -> water_rescue_filter(d)
          [] ft \in {"mountain", "wilderness"} -> mountain_rescue_filter(d)
          [] ft \in {"disaster", "tracking"}   -> disaster_rescue_filter(d)
          [] ft \in {"reset", ""}              -> reset_filter(d)
          [] OTHER -> Raise("ValueError", InvalidFilterMessage(ft))

-----------------------------------------------------------------------------
(* data_helpers.normalize_sex_intact *)

Pair(a, b) == <<a, b>>

\* normalize_sex_intact that tests 'male' alone: 'female' contains 'male'
normalize_sex_intact_MaleFirst(sex_upon_outcome) ==
    IF sex_upon_outcome = None \/ ~isinstance_str(sex_upon_outcome)
    THEN Pair(Str("Unknown"), Str("Unknown"))
    ELSE LET t == str_lower(str_strip(sex_upon_outcome.s))
         IN  IF t = "" \/ t = "unknown"
             THEN Pair(Str("Unknown"), Str("Unknown"))
             ELSE LET sex == IF str_contains(t, "male") THEN "Male"
                             ELSE IF str_contains(t, "female") THEN "Female"
                             ELSE "Unknown"
                      intact_status ==
                             IF str_contains(t, "neutered") THEN "Neutered"
                             ELSE IF str_contains(t, "spayed") THEN "Spayed"
                             ELSE IF str_contains(t, "intact") THEN "Intact"
                             ELSE "Unknown"
                  IN  Pair(Str(sex), Str(intact_status))

\* normalize_sex_intact that looks for 'spayed' before 'neutered'
normalize_sex_intact_SpayedFirst(sex_upon_outcome) ==
    IF sex_upon_outcome = None \/ ~isinstance_str(sex_upon_outcome)
    THEN Pair(Str("Unknown"), Str("Unknown"))
    ELSE LET t == str_lower(str_strip(sex_upon_outcome.s))
         IN  IF t = "" \/ t = "unknown"
             THEN Pair(Str("Unknown"), Str("Unknown"))
             ELSE LET sex == IF str_contains(t, "male") /\ ~str_contains(t, "female")
                             THEN "Male"
                             ELSE IF str_contains(t, "female") THEN "Female"
                             ELSE "Unknown"
                      intact_status ==
                             IF str_contains(t, "spayed") THEN "Spayed"
                             ELSE IF str_contains(t, "neutered") THEN "Neutered"
                             ELSE IF str_contains(t, "intact") THEN "Intact"
                             ELSE "Unknown"
                  IN  Pair(Str(sex), Str(intact_status))

normalize_sex_intact(sex_upon_outcome) ==
    IF sex_upon_outcome = None \/ ~isinstance_str(sex_upon_outcome)
    THEN Pair(Str("Unknown"), Str("Unknown"))
    ELSE LET t == str_lower(str_strip(sex_upon_outcome.s))
         IN  IF t = "" \/ t = "unknown"
             THEN Pair(Str("Unknown"), Str("Unknown"))
             ELSE LET sex == IF str_contains(t, "male") /\ ~str_contains(t, "female")
                             THEN "Male"
                             ELSE IF str_contains(t, "female") THEN "Female"
                             ELSE "Unknown"
                      intact_status ==
                             IF str_contains(t, "neutered") THEN "Neutered"
                             ELSE IF str_contains(t, "spayed") THEN "Spayed"
                             ELSE IF str_contains(t, "intact") THEN "Intact"
                             ELSE "Unknown"
                  IN  Pair(Str(sex), Str(intact_status))

-----------------------------------------------------------------------------
(* data_helpers.validate_coordinates *)

NaN == [t |-> "nan"]

\* a float that may be negative: sign * n / d
SignedFloat(sign, n, d) == Float(sign * n, d)

\* float(text) for a str: surrounding whitespace dropped, an optional sign,
\* then digits, digits "." [digits] or "." digits; "nan" in any case.  Any
\* other text is a ValueError.  (Exponents, underscores and infinities are
\* outside the model's inputs.)

\* the digits before and after the point, body[1..w_end] and what follows the
\* point up to f_end, as a float
FloatOfParts(body, neg, w_end, f_end, whole, frac) ==
    IF f_end # Len(body) \/ (whole = "" /\ frac = "")
    THEN Raise("ValueError", "")
    ELSE Return(SignedFloat(IF neg THEN -1 ELSE 1,
                            DigitsToNat(whole) * Pow10(Len(frac)) + DigitsToNat(frac),
                            Pow10(Len(frac))))

FloatOfDigits(body, neg, w_end, dot, f_end) ==
    FloatOfParts(body, neg, w_end, f_end,
                 SubSeq(body, 1, w_end),
                 IF dot THEN SubSeq(body, w_end + 2, f_end) ELSE "")

FloatOfWhole(body, neg, w_end, dot) ==
    FloatOfDigits(body, neg, w_end, dot,
                  IF dot THEN DigitsEnd(body, w_end + 2) ELSE w_end)

FloatOfUnsigned(body, neg) ==
    IF body = "nan"
    THEN Return(NaN)
    ELSE FloatOfWhole(body, neg, DigitsEnd(body, 1),
                      /\ DigitsEnd(body, 1) + 1 <= Len(body)
                      /\ CharAt(body, DigitsEnd(body, 1) + 1) = ".")

FloatOfTrimmed(t) ==
    FloatOfUnsigned(IF t # "" /\ CharAt(t, 1) \in {"-", "+"} THEN SubSeq(t, 2, Len(t)) ELSE t,
                    t # "" /\ CharAt(t, 1) = "-")

float_of_str(text) == FloatOfTrimmed(str_lower(str_strip(text)))

\* a Python int (arbitrary precision) whose magnitude is beyond the largest
\* float, such as 10**400
BigInt == [t |-> "bigint"]

\* float(x)
float_of(x) ==
    CASE x.t = "float"  -> Return(x)
      [] x.t = "nan"    -> Return(NaN)
      [] x.t = "int"    -> Return(Float(x.v, 1))
      [] x.t = "bigint" -> Raise("OverflowError", "int too large to convert to float")
      [] x.t = "str"    -> float_of_str(x.s)
      [] OTHER          -> Raise("TypeError", "")

\* except (TypeError, ValueError): any other exception leaves the function
Caught(outcome) == outcome.exc \in {"TypeError", "ValueError"}

\* the body of the try block once both float() calls are made: lat and lon
\* are their outcomes, and that of lon counts only if lat did not raise
ValidateFloats(lat, lon) ==
    IF lat.kind = "raise"
    THEN (IF Caught(lat) THEN Return(FALSE) ELSE lat)
    ELSE IF lon.kind = "raise"
    THEN (IF Caught(lon) THEN Return(FALSE) ELSE lon)
    ELSE IF lat.value = NaN \/ lon.value = NaN
    THEN Return(FALSE)
    ELSE IF ~FloatGE(lat.value, Float(-90, 1)) \/ ~FloatLE(lat.value, Float(90, 1))
    THEN Return(FALSE)
    ELSE Return(~(\/ ~FloatGE(lon.value, Float(-180, 1))
                  \/ ~FloatLE(lon.value, Float(180, 1))))

\* the outcome of the call: Return(TRUE), Return(FALSE), or the exception
\* that float() raised and the except clause does not name
validate_coordinates(location_lat, location_long) ==
    ValidateFloats(float_of(location_lat), float_of(location_long))

-----------------------------------------------------------------------------
(* data_helpers.normalize_dataframe *)

required_columns ==
    <<"age_upon_outcome", "sex_upon_outcome", "location_lat", "location_long">>

derived_columns == <<"age_weeks", "sex", "intact_status", "valid_coords">>

\* ', '.join(names)
RECURSIVE JoinComma(_)
JoinComma(names) ==
    IF names = <<>> THEN ""
    ELSE IF Len(names) = 1 THEN names[1]
    ELSE names[1] \o ", " \o JoinComma(Tail(names))

\* the first entry of names that d lacks, and no other
RECURSIVE MissingColumns_FirstOnly(_, _)
MissingColumns_FirstOnly(d, names) ==
    IF names = <<>> THEN <<>>
    ELSE IF HasColumn(d, names[1]) THEN MissingColumns_FirstOnly(d, Tail(names))
    ELSE <<names[1]>>

\* the entries of names that d lacks, in the order of names
RECURSIVE MissingColumns(_, _)
MissingColumns(d, names) ==
    IF names = <<>> THEN <<>>
    ELSE (IF HasColumn(d, names[1]) THEN <<>> ELSE <<names[1]>>)
            \o MissingColumns(d, Tail(names))

PyBool(b) == [t |-> "bool", v |-> b]

\* the row with the four derived cells set, each from this row's own cells
NormalizeRow(row) ==
    LET sex_intact == normalize_sex_intact(row["sex_upon_outcome"])
        derived == [c \in {"age_weeks", "sex", "intact_status", "valid_coords"} |->
            CASE c = "age_weeks"     -> parse_age_to_weeks(row["age_upon_outcome"]).value
              [] c = "sex"           -> sex_intact[1]
              [] c = "intact_status" -> sex_intact[2]
              [] c = "valid_coords"  ->
                    PyBool(validate_coordinates(row["location_lat"],
                                                row["location_long"]).value)]
    IN  [c \in (DOMAIN row) \cup (DOMAIN derived) |->
            IF c \in DOMAIN derived THEN derived[c] ELSE row[c]]

\* the labels of a frame rebuilt from the derived columns alone
WithColumns_DerivedOnly(columns, names) == names

\* a column assigned to a frame: appended to the labels unless already there
RECURSIVE WithColumns(_, _)
WithColumns(columns, names) ==
    IF names = <<>> THEN columns
    ELSE WithColumns(
            IF \E k \in 1..Len(columns) : columns[k] = names[1]
            THEN columns ELSE Append(columns, names[1]),
            Tail(names))

CoordOutcome(row) == validate_coordinates(row["location_lat"], row["location_long"])

\* the positions of the rows whose coordinate validation raises
CoordFailures(d) == {i \in 1..Len(d.rows) : CoordOutcome(d.rows[i]).kind = "raise"}

\* the least element of a non-empty set of positions
FirstOf(positions) == CHOOSE i \in positions : \A k \in positions : i <= k

\* lines 372-395, failures being the rows whose coordinate validation raises:
\* the exception leaves normalized_df.apply(..., axis=1) at the first such row
NormalizeRows(d, failures) ==
    IF failures # {}
    THEN CoordOutcome(d.rows[FirstOf(failures)])
    ELSE Return(DataFrame(WithColumns(d.columns, derived_columns),
                          [i \in 1..Len(d.rows) |-> NormalizeRow(d.rows[i])]))

normalize_dataframe(d) ==
    IF MissingColumns(d, required_columns) # <<>>
    THEN Raise("ValueError",
               "Missing required columns: " \o JoinComma(MissingColumns(d, required_columns)))
    ELSE NormalizeRows(d, CoordFailures(d))

-----------------------------------------------------------------------------
(* The arguments parse_age_to_weeks is called with *)

\* str() of a natural number
RECURSIVE NatToDigits(_)
NatToDigits(n) ==
    IF n < 10 THEN SubSeq("0123456789", n + 1, n + 1)
    ELSE NatToDigits(n \div 10) \o SubSeq("0123456789", (n % 10) + 1, (n % 10) + 1)

RECURSIVE Spaces(_)
Spaces(k) == IF k = 0 THEN "" ELSE " " \o Spaces(k - 1)

str_title(s) == IF s = "" THEN "" ELSE char_upper(CharAt(s, 1)) \o SubSeq(s, 2, Len(s))

Styled(s, style) ==
    CASE style = "lower" -> s
      [] style = "upper" -> str_upper(s)
      [] style = "title" -> str_title(s)

\* n written with exactly k digits (leading zeros kept); "" for k = 0
RECURSIVE FixedDigits(_, _)
FixedDigits(n, k) ==
    IF k = 0 THEN ""
    ELSE FixedDigits(n \div 10, k - 1) \o SubSeq("0123456789", (n % 10) + 1, (n % 10) + 1)

\* the fractional parts written: none, .5, .25, .0, .05
FracParts ==
    {[n |-> 0, digits |-> 0], [n |-> 5, digits |-> 1], [n |-> 25, digits |-> 2],
     [n |-> 0, digits |-> 1], [n |-> 5, digits |-> 2]}

\* an age written as  <pad><whole>[.<frac>]<sep><unit>[s]<tail><pad>
FormattedAgeCases ==
    [kind   : {"formatted"},
     whole  : 0..MaxWhole,
     frac   : FracParts,
     sep    : {Spaces(k) : k \in 0..MaxPad} \cup {"\t"},
     unit   : {"year", "month", "week", "day"},
     plural : BOOLEAN,
     tail   : {"", " old", "x"},
     style  : {"lower", "upper", "title"},
     lpad   : 0..MaxPad,
     rpad   : 0..MaxPad]

FormatAge(c) ==
    Spaces(c.lpad)
      \o NatToDigits(c.whole)
      \o (IF c.frac.digits = 0 THEN "" ELSE "." \o FixedDigits(c.frac.n, c.frac.digits))
      \o c.sep
      \o Styled(c.unit \o (IF c.plural THEN "s" ELSE ""), c.style)
      \o c.tail
      \o Spaces(c.rpad)

AgeAlphabet == {"1", ".", " ", "d", "a", "y", "s"}

RECURSIVE StringsOfLen(_)
StringsOfLen(k) ==
    IF k = 0 THEN {""}
    ELSE {s \o c : s \in StringsOfLen(k - 1), c \in AgeAlphabet}

ShortStrings == UNION {StringsOfLen(k) : k \in 0..MaxLen}

\* the arguments of tests/test_data_helpers.py, lines 92-132
TestAgeLiterals ==
    {None, PyInt(123), EmptyList}
      \cup {Str(s) : s \in {"", "   ", "invalid", "abc years", "2", "-2 years",
                            "0 years", "1. years", ".5 years", "1.5.2 years",
                            "years 2", "2 weeks 3 days", "2 hours"}}

LiteralAgeCases ==
    [kind : {"literal"}, value : TestAgeLiterals \cup {Str(s) : s \in ShortStrings}]

AgeCases == FormattedAgeCases \cup LiteralAgeCases

AgeArgOf(c) == IF c.kind = "literal" THEN c.value ELSE Str(FormatAge(c))

-----------------------------------------------------------------------------
(* Calls of parse_age_to_weeks *)

InitAge ==
    /\ age_case \in AgeCases
    /\ age_arg = AgeArgOf(age_case)
    /\ age_ret = Pending
    /\ raw_df = None
    /\ norm_ret = Pending
    /\ df = None
    /\ filter_case = None
    /\ filter_type = None
    /\ filter_ret = Pending
    /\ call = None
    /\ call_ret = Pending
    /\ heap = <<>>
    /\ arg_ref = None
    /\ ret_ref = Pending
    /\ expected = None
    /\ collection = <<>>
    /\ op = None
    /\ op_ret = Pending
    /\ procs = <<>>

ParseAge ==
    /\ age_ret = Pending
    /\ age_ret' = parse_age_to_weeks(age_arg)
    /\ UNCHANGED <<age_arg, age_case, batchVars, filterVars, helperVars, copyVars, storeVars>>

NextAge == ParseAge

SpecAge == InitAge /\ [][NextAge]_vars

-----------------------------------------------------------------------------
(* The filter_type arguments apply_rescue_filter is called with *)

FilterNames ==
    {"water", "mountain", "wilderness", "disaster", "tracking", "reset", "",
     "invalid", "waters"}

\* a name written in lower, upper or title case with padding around it
FilterCases ==
    [name : FilterNames, style : {"lower", "upper", "title"},
     lpad : 0..MaxPad, rpad : 0..MaxPad]

\* the names as the unit tests of the three filters write them
PlainFilterCases ==
    [name : {"water", "mountain", "disaster"}, style : {"lower"}, lpad : {0}, rpad : {0}]

FormatFilterType(c) == Spaces(c.lpad) \o Styled(c.name, c.style) \o Spaces(c.rpad)

-----------------------------------------------------------------------------
(* Hand-built normalized batches, as tests/test_rescue_filters.py builds them *)

NormalizedColumns == <<"animal_id", "breed", "sex", "intact_status", "age_weeks">>

Profile(breed, sex, intact_status) ==
    [breed |-> breed, sex |-> Str(sex), intact_status |-> Str(intact_status)]

WithAge(profile, age) ==
    [c \in (DOMAIN profile) \cup {"age_weeks"} |->
        IF c = "age_weeks" THEN age ELSE profile[c]]

\* the ages of test_filters_correct_age_range (lines 59-72, 137-150, 189-201)
\* and a missing age
ProbeAges ==
    {None} \cup {Float(w, 1) : w \in {19, 20, 25, 26, 156, 157, 300, 301}}

\* a water candidate and a mountain and disaster candidate, at every probe age
AgeProbeRows ==
    {WithAge(p, a) : p \in {Profile(Str("Labrador Retriever Mix"), "Female", "Intact"),
                            Profile(Str("German Shepherd"), "Male", "Intact")},
                     a \in ProbeAges}

\* every breed, sex and intact status, at the age of the fixtures (52 weeks)
ClauseProbeRows ==
    {WithAge(Profile(b, sx, st), Float(52, 1)) :
        b \in ModelBreeds, sx \in {"Male", "Female"}, st \in {"Intact", "Neutered"}}

ProbeRows == AgeProbeRows \cup ClauseProbeRows

AnimalId(i) == Str("A00" \o NatToDigits(i))

\* the row r as the i-th row of a batch
RowAt(r, i) ==
    [c \in (DOMAIN r) \cup {"animal_id"} |-> IF c = "animal_id" THEN AnimalId(i) ELSE r[c]]

InitFilter ==
    /\ age_case = [kind |-> "literal", value |-> None]
    /\ age_arg = None
    /\ age_ret = Pending
    /\ raw_df = None
    /\ norm_ret = Pending
    /\ df = DataFrame(NormalizedColumns, <<>>)
    /\ filter_case = None
    /\ filter_type = None
    /\ filter_ret = Pending
    /\ call = None
    /\ call_ret = Pending
    /\ heap = <<>>
    /\ arg_ref = None
    /\ ret_ref = Pending
    /\ expected = None
    /\ collection = <<>>
    /\ op = None
    /\ op_ret = Pending
    /\ procs = <<>>

AddRow ==
    \E r \in ProbeRows :
        /\ df # None
        /\ raw_df = None
        /\ filter_ret = Pending
        /\ Len(df.rows) < MaxRows
        /\ df' = DataFrame(df.columns, Append(df.rows, RowAt(r, Len(df.rows) + 1)))
        /\ UNCHANGED <<ageVars, raw_df, norm_ret, filterVars, helperVars, copyVars, storeVars>>

ApplyFilter(c) ==
    /\ df # None
    /\ filter_ret = Pending
    /\ filter_case' = c
    /\ filter_type' = Str(FormatFilterType(c))
    /\ filter_ret' = apply_rescue_filter(df, filter_type')
    /\ UNCHANGED <<ageVars, batchVars, helperVars, copyVars, storeVars>>

ApplyPlainFilter == \E c \in PlainFilterCases : ApplyFilter(c)

NextFilter == AddRow \/ ApplyPlainFilter

SpecFilter == InitFilter /\ [][NextFilter]_vars

-----------------------------------------------------------------------------
(* The pipeline: load a raw batch, normalize it, filter the normalized batch *)

RawColumns ==
    <<"animal_id", "breed", "age_upon_outcome", "sex_upon_outcome",
      "location_lat", "location_long">>

RawRow(id, breed, age, sex, lat, long) ==
    [animal_id |-> id, breed |-> breed, age_upon_outcome |-> age,
     sex_upon_outcome |-> sex, location_lat |-> lat, location_long |-> long]

\* integration/test_dashboard_workflows.py, lines 22-55 (A001-A003), and rows
\* whose age or coordinates do not parse (tests/test_data_helpers.py, 537-666)
RawRows ==
    {RawRow(Str("A001"), Str("Labrador Retriever Mix"), Str("2 years"),
            Str("Intact Female"), Float(30267, 1000), SignedFloat(-1, 97743, 1000)),
     RawRow(Str("A002"), Str("German Shepherd"), Str("150 weeks"),
            Str("Intact Male"), Float(30268, 1000), SignedFloat(-1, 97744, 1000)),
     RawRow(Str("A003"), Str("Doberman Pinscher"), Str("4 years"),
            Str("Intact Male"), Float(30269, 1000), SignedFloat(-1, 97745, 1000)),
     RawRow(Str("A007"), Str("Labrador Retriever Mix"), None,
            Str("Intact Female"), NaN, SignedFloat(-1, 97743, 1000)),
     RawRow(Str("A008"), Str("German Shepherd"), Str("invalid"),
            Str("Intact Male"), Float(30268, 1000), SignedFloat(-1, 181, 1))}

Init ==
    /\ age_case = [kind |-> "literal", value |-> None]
    /\ age_arg = None
    /\ age_ret = Pending
    /\ raw_df = DataFrame(RawColumns, <<>>)
    /\ norm_ret = Pending
    /\ df = None
    /\ filter_case = None
    /\ filter_type = None
    /\ filter_ret = Pending
    /\ call = None
    /\ call_ret = Pending
    /\ heap = <<>>
    /\ arg_ref = None
    /\ ret_ref = Pending
    /\ expected = None
    /\ collection = <<>>
    /\ op = None
    /\ op_ret = Pending
    /\ procs = <<>>

LoadRow ==
    \E r \in RawRows :
        /\ raw_df # None
        /\ norm_ret = Pending
        /\ Len(raw_df.rows) < MaxRawRows
        /\ raw_df' = DataFrame(raw_df.columns, Append(raw_df.rows, r))
        /\ UNCHANGED <<ageVars, norm_ret, df, filterVars, helperVars, copyVars, storeVars>>

\* df = normalize_dataframe(raw)
Normalize ==
    /\ raw_df # None
    /\ norm_ret = Pending
    /\ norm_ret' = normalize_dataframe(raw_df)
    /\ df' = IF norm_ret'.kind = "return" THEN norm_ret'.value ELSE df
    /\ UNCHANGED <<ageVars, raw_df, filterVars, helperVars, copyVars, storeVars>>

ApplyAnyFilter == \E c \in FilterCases : raw_df # None /\ ApplyFilter(c)

Next == LoadRow \/ Normalize \/ ApplyAnyFilter

Spec == Init /\ [][Next]_vars

-----------------------------------------------------------------------------
(* Calls of the other helpers of data_helpers.py *)

\* most words of a generated sex_upon_outcome string
MaxWords == 2

RECURSIVE JoinSpace(_)
JoinSpace(words) ==
    IF words = <<>> THEN ""
    ELSE IF Len(words) = 1 THEN words[1]
    ELSE words[1] \o " " \o JoinSpace(Tail(words))

SeqsUpTo(S, k) == UNION {[1..n -> S] : n \in 0..k}

SexVocabulary == {"male", "female", "intact", "neutered", "spayed", "unknown", "dog"}

\* sex_upon_outcome written as  <pad><word> <word> ...<pad>  in a letter case
SexStringCalls ==
    [fn    : {"normalize_sex_intact"},
     kind  : {"words"},
     words : SeqsUpTo(SexVocabulary, MaxWords),
     style : {"lower", "upper", "title"},
     lpad  : 0..MaxPad,
     rpad  : 0..MaxPad]

\* tests/test_data_helpers.py: None, 123, []
SexLiteralCalls ==
    [fn : {"normalize_sex_intact"}, kind : {"literal"}, value : {None, PyInt(123), EmptyList}]

SexCalls == SexStringCalls \cup SexLiteralCalls

SexArgOf(c) ==
    IF c.kind = "literal" THEN c.value
    ELSE Str(Spaces(c.lpad) \o Styled(JoinSpace(c.words), c.style) \o Spaces(c.rpad))

CallNormalizeSexIntact ==
    /\ call # None
    /\ call.fn = "normalize_sex_intact"
    /\ call_ret = Pending
    /\ call_ret' = Return(normalize_sex_intact(SexArgOf(call)))
    /\ UNCHANGED <<call, ageVars, batchVars, filterVars, copyVars, storeVars>>

\* a coordinate in thousandths of a degree: the boundaries, their neighbours
\* and ordinary values
CoordMillis ==
    {-181000, -180001, -180000, -90001, -90000, 0, 30267, 90000, 90001, 180000, 181000}

\* str of m/1000: "-90.001", "30.267", "90"
FormatMilli(m) ==
    LET a == IF m < 0 THEN -m ELSE m
    IN  (IF m < 0 THEN "-" ELSE "")
            \o NatToDigits(a \div 1000)
            \o (IF a % 1000 = 0 THEN "" ELSE "." \o FixedDigits(a % 1000, 3))

\* a number passed as a float, as an int (whole degrees) or as a padded str
CoordNumberCases ==
    {c \in [kind : {"number"}, repr : {"float", "int", "str"},
            milli : CoordMillis, pad : 0..MaxPad] :
        /\ c.repr # "str" => c.pad = 0
        /\ c.repr = "int" => c.milli % 1000 = 0}

\* tests/test_data_helpers.py: None, NaN, "invalid", "", [] and an int beyond
\* the float range
CoordLiteralCases ==
    [kind : {"literal"},
     value : {None, NaN, BigInt, EmptyList, Str(""), Str("invalid"), Str("nan")}]

CoordCases == CoordNumberCases \cup CoordLiteralCases

CoordArgOf(c) ==
    CASE c.kind = "literal" -> c.value
      [] c.repr = "float"   -> SignedFloat(1, c.milli, 1000)
      [] c.repr = "int"     -> PyInt(c.milli \div 1000)
      [] c.repr = "str"     -> Str(Spaces(c.pad) \o FormatMilli(c.milli) \o Spaces(c.pad))

CoordCalls == [fn : {"validate_coordinates"}, lat : CoordCases, lon : CoordCases]

CallValidateCoordinates ==
    /\ call # None
    /\ call.fn = "validate_coordinates"
    /\ call_ret = Pending
    /\ call_ret' = validate_coordinates(CoordArgOf(call.lat), CoordArgOf(call.lon))
    /\ UNCHANGED <<call, ageVars, batchVars, filterVars, copyVars, storeVars>>

\* the canonical names of the three breed sets, and names that are in none
BreedNames == water_breeds \cup mountain_breeds \cup disaster_breeds \cup {"poodle", "labrador"}

\* a breed written as  <pad><name><suffix><pad>  in a letter case
BreedStringCases ==
    [kind   : {"named"},
     name   : BreedNames,
     suffix : {"", " mix", "/pit bull"},
     style  : {"lower", "upper", "title"},
     pad    : 0..MaxPad]

BreedLiteralCases ==
    [kind : {"literal"}, value : {None, PyInt(123), EmptyList, Str(""), Str(" ")}]

BreedCases == BreedStringCases \cup BreedLiteralCases

BreedArgOf(c) ==
    IF c.kind = "literal" THEN c.value
    ELSE Str(Spaces(c.pad) \o Styled(c.name \o c.suffix, c.style) \o Spaces(c.pad))

RescueTypeNames ==
    {"water", "mountain", "disaster", "tracking", "wilderness", "reset", "", "rescue"}

RescueTypeCases ==
    [name : RescueTypeNames, style : {"lower", "upper"}, pad : 0..MaxPad]

RescueTypeArgOf(c) == Str(Spaces(c.pad) \o Styled(c.name, c.style) \o Spaces(c.pad))

BreedCalls ==
    [fn : {"breed_matches_rescue_type"}, breed : BreedCases, rescue_type : RescueTypeCases]

CallBreedMatches ==
    /\ call # None
    /\ call.fn = "breed_matches_rescue_type"
    /\ call_ret = Pending
    /\ call_ret' = Return(breed_matches_rescue_type(BreedArgOf(call.breed),
                                                   RescueTypeArgOf(call.rescue_type)))
    /\ UNCHANGED <<call, ageVars, batchVars, filterVars, copyVars, storeVars>>

-----------------------------------------------------------------------------
(* data_helpers.bucket_categories *)

\* ord(c) for the letters and the space
CodePoint(c) ==
    IF c = " " THEN 32
    ELSE IF \E k \in 1..26 : UpperLetters[k] = c
    THEN 64 + (CHOOSE k \in 1..26 : UpperLetters[k] = c)
    ELSE 96 + (CHOOSE k \in 1..26 : LowerLetters[k] = c)

\* a < b for two str: by code point, a proper prefix first
RECURSIVE StrLess(_, _)
StrLess(a, b) ==
    IF b = "" THEN FALSE
    ELSE IF a = "" THEN TRUE
    ELSE IF CharAt(a, 1) = CharAt(b, 1)
    THEN StrLess(SubSeq(a, 2, Len(a)), SubSeq(b, 2, Len(b)))
    ELSE CodePoint(CharAt(a, 1)) < CodePoint(CharAt(b, 1))

Occurrences(values, v) == Cardinality({i \in 1..Len(values) : values[i] = v})

\* Counter(values).items(): one (value, count) per distinct value, in the
\* order of first occurrence
RECURSIVE CounterItems(_, _)
CounterItems(values, i) ==
    IF i > Len(values) THEN <<>>
    ELSE (IF \E k \in 1..(i - 1) : values[k] = values[i]
          THEN <<>>
          ELSE <<[value |-> values[i], count |-> Occurrences(values, values[i])]>>)
            \o CounterItems(values, i + 1)

\* key(a) < key(b) with key the count alone, ties left in input order
KeyLess_CountOnly(a, b) == a.count > b.count

\* key(a) < key(b) for key = lambda x: (-x[1], x[0])
KeyLess(a, b) ==
    \/ a.count > b.count
    \/ a.count = b.count /\ StrLess(a.value, b.value)

\* item put into a sorted list after every entry that is not greater: sorted()
\* is stable
RECURSIVE InsertSorted(_, _)
InsertSorted(items, item) ==
    IF items = <<>> THEN <<item>>
    ELSE IF KeyLess(item, Head(items)) THEN <<item>> \o items
    ELSE <<Head(items)>> \o InsertSorted(Tail(items), item)

RECURSIVE Sorted(_, _)
Sorted(items, done) ==
    IF items = <<>> THEN done ELSE Sorted(Tail(items), InsertSorted(done, Head(items)))

\* items[:n + 1]
Slice_OneMore(items, n) == SubSeq(items, 1, IF n + 1 < Len(items) THEN n + 1 ELSE Len(items))

\* items[:n] for n >= 0
Slice(items, n) == SubSeq(items, 1, IF n < Len(items) THEN n ELSE Len(items))

\* {} is the dict with no key
EmptyDict == [k \in {} |-> ""]

\* if not values or top_n <= 0, with < in place of <=
BucketGuard_Negative(values, top_n) == values = <<>> \/ top_n < 0

\* if not values or top_n <= 0
BucketGuard(values, top_n) == values = <<>> \/ top_n <= 0

\* the dict returned, as the function key -> value
bucket_categories(values, top_n) ==
    IF BucketGuard(values, top_n) THEN EmptyDict
    ELSE LET top_categories == Slice(Sorted(CounterItems(values, 1), <<>>), top_n)
             top_names == {top_categories[k].value : k \in 1..Len(top_categories)}
         IN  [v \in {values[i] : i \in 1..Len(values)} |->
                 IF v \in top_names THEN v ELSE "Other"]

\* most entries of a list given to bucket_categories
MaxValues == 4
\* largest top_n given to bucket_categories
MaxTopN == 3

\* the category values of the lists, in ascending order of Python's str
\* comparison ('Z' < 'a'; a proper prefix first)
CategoryOrder == <<"Bird", "Ca", "Cat", "Dog", "Other", "cat">>

CategoryValues == {CategoryOrder[k] : k \in 1..Len(CategoryOrder)}

BucketCalls ==
    [fn     : {"bucket_categories"},
     values : SeqsUpTo(CategoryValues, MaxValues),
     top_n  : -1..MaxTopN]

CallBucketCategories ==
    /\ call # None
    /\ call.fn = "bucket_categories"
    /\ call_ret = Pending
    /\ call_ret' = Return(bucket_categories(call.values, call.top_n))
    /\ UNCHANGED <<call, ageVars, batchVars, filterVars, copyVars, storeVars>>

-----------------------------------------------------------------------------
(* dashboard_auth: the login gate *)

valid_username == "admin"
valid_password == "grazioso2024"

\* the comparison without the strip
validate_credentials_NoStrip(username, password) ==
    IF username = None \/ password = None THEN FALSE
    ELSE IF ~isinstance_str(username) \/ ~isinstance_str(password) THEN FALSE
    ELSE IF str_strip(username.s) = "" \/ str_strip(password.s) = "" THEN FALSE
    ELSE username.s = valid_username /\ password.s = valid_password

validate_credentials(username, password) ==
    IF username = None \/ password = None THEN FALSE
    ELSE IF ~isinstance_str(username) \/ ~isinstance_str(password) THEN FALSE
    ELSE IF str_strip(username.s) = "" \/ str_strip(password.s) = "" THEN FALSE
    ELSE /\ str_strip(username.s) = valid_username
         /\ str_strip(password.s) = valid_password

\* the entry taken for true whenever it is truthy
is_authenticated_Truthy(auth_state) ==
    IF auth_state = None THEN FALSE
    ELSE IF ~isinstance_dict(auth_state) THEN FALSE
    ELSE Truthy(dict_get(auth_state, "authenticated"))

\* auth_state.get("authenticated", False) is True
is_authenticated(auth_state) ==
    IF auth_state = None THEN FALSE
    ELSE IF ~isinstance_dict(auth_state) THEN FALSE
    ELSE IF "authenticated" \notin Keys(auth_state) THEN FALSE
    ELSE auth_state.items["authenticated"] = [t |-> "bool", v |-> TRUE]

\* tests/test_dashboard_auth.py: the user names and passwords tried
UsernameTexts == {"admin", "ADMIN", "Admin", "admin@", "ad min", "wrong", "grazioso2024", ""}
PasswordTexts ==
    {"grazioso2024", "GRAZIOSO2024", "grazioso2024!", "grazioso 2024", "wrongpass", "admin", ""}

CredentialCases(texts) ==
    [kind : {"text"}, text : texts, lpad : 0..MaxPad, rpad : 0..MaxPad]
        \cup [kind : {"literal"}, value : {None, PyInt(12345), EmptyList}]

CredentialArgOf(c) ==
    IF c.kind = "literal" THEN c.value
    ELSE Str(Spaces(c.lpad) \o c.text \o Spaces(c.rpad))

CredentialCalls ==
    [fn       : {"validate_credentials"},
     username : CredentialCases(UsernameTexts),
     password : CredentialCases(PasswordTexts)]

CallValidateCredentials ==
    /\ call # None
    /\ call.fn = "validate_credentials"
    /\ call_ret = Pending
    /\ call_ret' = Return(validate_credentials(CredentialArgOf(call.username),
                                               CredentialArgOf(call.password)))
    /\ UNCHANGED <<call, ageVars, batchVars, filterVars, copyVars, storeVars>>

\* tests/test_dashboard_auth.py: the session states tried
AuthEntries ==
    {Absent, None, [t |-> "bool", v |-> TRUE], [t |-> "bool", v |-> FALSE],
     PyInt(1), PyInt(0), Str("yes"), Str("True"), Str("")}

AuthStates ==
    {None, Str("authenticated"), PyInt(1), [t |-> "bool", v |-> TRUE],
     EmptyList, PyList(<<[t |-> "bool", v |-> TRUE]>>)}
        \cup { Dict(Field("authenticated", entry) @@ Field("username", user)
                    @@ Field("login_time", time)) :
                 entry \in AuthEntries,
                 user \in {Absent, Str("admin")},
                 time \in {Absent, Str("2024-01-01")} }

AuthCalls == [fn : {"is_authenticated"}, auth_state : AuthStates]

CallIsAuthenticated ==
    /\ call # None
    /\ call.fn = "is_authenticated"
    /\ call_ret = Pending
    /\ call_ret' = Return(is_authenticated(call.auth_state))
    /\ UNCHANGED <<call, ageVars, batchVars, filterVars, copyVars, storeVars>>

-----------------------------------------------------------------------------
(* One call of a helper, its arguments drawn from the cases above *)

HelperCalls ==
    SexCalls \cup CoordCalls \cup BreedCalls \cup BucketCalls
        \cup CredentialCalls \cup AuthCalls

InitHelpers ==
    /\ age_case = [kind |-> "literal", value |-> None]
    /\ age_arg = None
    /\ age_ret = Pending
    /\ raw_df = None
    /\ norm_ret = Pending
    /\ df = None
    /\ filter_case = None
    /\ filter_type = None
    /\ filter_ret = Pending
    /\ call \in HelperCalls
    /\ call_ret = Pending
    /\ heap = <<>>
    /\ arg_ref = None
    /\ ret_ref = Pending
    /\ expected = None
    /\ collection = <<>>
    /\ op = None
    /\ op_ret = Pending
    /\ procs = <<>>

NextHelpers ==
    \/ CallNormalizeSexIntact
    \/ CallValidateCoordinates
    \/ CallBreedMatches
    \/ CallBucketCategories
    \/ CallValidateCredentials
    \/ CallIsAuthenticated

SpecHelpers == InitHelpers /\ [][NextHelpers]_vars

-----------------------------------------------------------------------------
(* normalize_dataframe called on a DataFrame object *)

\* normalized_df = df in place of df.copy(): the same object under a new name
df_copy_Alias(h, ref) == [heap |-> h, ref |-> ref]

\* df.copy(): a new object with the contents of the object ref names
df_copy(h, ref) == [heap |-> Append(h, h[ref]), ref |-> Len(h) + 1]

\* the heap and the outcome once the contents of the result, out, are known:
\* the copy is made after the column check, and the derived columns are
\* assigned to the copy.  A copy the call does not return is unreachable and
\* is left out of the heap.
ReturnCopy(h, arg, out, normalized_df) ==
    IF out.kind = "raise"
    THEN [heap |-> h, outcome |-> out]
    ELSE [heap    |-> [normalized_df.heap EXCEPT ![normalized_df.ref] = out.value],
          outcome |-> Return(normalized_df.ref)]

\* the call on the object arg of heap h: the heap afterwards and the outcome,
\* Return(id of the new object) or the exception
normalize_dataframe_call(h, arg) ==
    ReturnCopy(h, arg, normalize_dataframe(h[arg]), df_copy(h, arg))

\* most rows of a batch given to normalize_dataframe as an object
MaxBatch == 2

RequiredSet == {required_columns[k] : k \in 1..Len(required_columns)}

\* the raw columns with any of the required ones left out
ColumnChoices ==
    {SelectSeq(RawColumns, LAMBDA c : c \notin missing) : missing \in SUBSET RequiredSet}

GoodRow ==
    RawRow(Str("A001"), Str("Labrador Retriever Mix"), Str("2 years"),
           Str("Intact Female"), Float(30267, 1000), SignedFloat(-1, 97743, 1000))

\* rows with one malformed cell, and a row with four
MalformedRows ==
    {[GoodRow EXCEPT !["age_upon_outcome"] = v] : v \in {None, PyInt(5), Str("invalid")}}
    \cup {[GoodRow EXCEPT !["sex_upon_outcome"] = v] : v \in {None, Str("Neutered Male")}}
    \cup {[GoodRow EXCEPT !["location_lat"] = v] : v \in {Str("30.5"), Float(91, 1), BigInt}}
    \cup {[GoodRow EXCEPT !["location_long"] = v] : v \in {SignedFloat(-1, 181, 1)}}
    \cup {RawRow(Str("A009"), None, None, Str(""), Str("invalid"), None)}

BatchRows == {GoodRow} \cup MalformedRows

RestrictRow(row, columns) == [c \in {columns[k] : k \in 1..Len(columns)} |-> row[c]]

\* the value a caller assigns to a cell of a batch after the call
Overwrite == Str("Poodle")

InitNormalize ==
    /\ age_case = [kind |-> "literal", value |-> None]
    /\ age_arg = None
    /\ age_ret = Pending
    /\ raw_df = None
    /\ norm_ret = Pending
    /\ df = None
    /\ filter_case = None
    /\ filter_type = None
    /\ filter_ret = Pending
    /\ call = None
    /\ call_ret = Pending
    /\ \E columns \in ColumnChoices :
          /\ heap = <<DataFrame(columns, <<>>)>>
          /\ expected = [arg |-> DataFrame(columns, <<>>), ret |-> None]
    /\ arg_ref = 1
    /\ ret_ref = Pending
    /\ collection = <<>>
    /\ op = None
    /\ op_ret = Pending
    /\ procs = <<>>

\* the caller builds the batch, row by row, before the call
AppendRow ==
    \E r \in BatchRows :
        LET d   == heap[arg_ref]
            new == DataFrame(d.columns, Append(d.rows, RestrictRow(r, d.columns)))
        IN  /\ ret_ref = Pending
            /\ heap # <<>>
            /\ Len(d.rows) < MaxBatch
            /\ heap' = [heap EXCEPT ![arg_ref] = new]
            /\ expected' = [expected EXCEPT !.arg = new]
            /\ UNCHANGED <<arg_ref, ret_ref, ageVars, batchVars, filterVars, helperVars, storeVars>>

\* normalized = normalize_dataframe(batch)
NormalizeCall ==
    /\ heap # <<>>
    /\ ret_ref = Pending
    /\ \E done \in {normalize_dataframe_call(heap, arg_ref)} :
          /\ heap' = done.heap
          /\ ret_ref' = done.outcome
          /\ expected' = IF done.outcome.kind = "return"
                         THEN [expected EXCEPT !.ret = done.heap[done.outcome.value]]
                         ELSE expected
    /\ UNCHANGED <<arg_ref, ageVars, batchVars, filterVars, helperVars, storeVars>>

\* the object ref with the breed of its first row overwritten
Assigned(h, ref) == [h EXCEPT ![ref].rows[1]["breed"] = Overwrite]

\* batch.loc[0, 'breed'] = 'Poodle' after the call
MutateInput ==
    /\ ret_ref # Pending
    /\ expected.arg.rows # <<>>
    /\ expected.arg.rows[1]["breed"] # Overwrite
    /\ heap' = Assigned(heap, arg_ref)
    /\ expected' = [expected EXCEPT !.arg.rows[1]["breed"] = Overwrite]
    /\ UNCHANGED <<arg_ref, ret_ref, ageVars, batchVars, filterVars, helperVars, storeVars>>

\* normalized.loc[0, 'breed'] = 'Poodle'
MutateResult ==
    /\ ret_ref.kind = "return"
    /\ expected.ret.rows # <<>>
    /\ expected.ret.rows[1]["breed"] # Overwrite
    /\ heap' = Assigned(heap, ret_ref.value)
    /\ expected' = [expected EXCEPT !.ret.rows[1]["breed"] = Overwrite]
    /\ UNCHANGED <<arg_ref, ret_ref, ageVars, batchVars, filterVars, helperVars, storeVars>>

NextNormalize == AppendRow \/ NormalizeCall \/ MutateInput \/ MutateResult

SpecNormalize == InitNormalize /\ [][NextNormalize]_vars

-----------------------------------------------------------------------------
(* The 'animals' collection: what AnimalShelter asks of pymongo *)

\* key.startswith('$')
startswith_dollar(key) == Len(key) >= 1 /\ SubSeq(key, 1, 1) = "$"

\* a query of field: value pairs selects the documents that hold each value;
\* a null value also selects the documents without the field
Matches(doc, query) ==
    \A k \in Keys(query) :
        IF query.items[k] = None
        THEN k \notin DOMAIN doc \/ doc[k] = None
        ELSE k \in DOMAIN doc /\ doc[k] = query.items[k]

\* what the driver and the server refuse in a filter: a filter that is not
\* a mapping (TypeError), an unknown top-level operator (OperationFailure)
FilterError(query) ==
    IF ~isinstance_dict(query)
    THEN Raise("TypeError", "filter must be an instance of dict")
    ELSE IF \E k \in Keys(query) : startswith_dollar(k)
    THEN Raise("OperationFailure", "unknown top level operator")
    ELSE Pending

StoreDown == Raise("PyMongoError", "store error")

MatchingDocs(docs, query) == SelectSeq(docs, LAMBDA doc : Matches(doc, query))
OtherDocs(docs, query) == SelectSeq(docs, LAMBDA doc : ~Matches(doc, query))

\* the cursor's filter: spec = filter or {}
FilterOrEmpty(query) == IF Truthy(query) THEN query ELSE Dict(EmptyDoc)

FindSpec(docs, spec, ok) ==
    IF FilterError(spec) # Pending THEN FilterError(spec)
    ELSE IF ~ok THEN StoreDown
    ELSE Return(MatchingDocs(docs, spec))

\* collection.find(query), read to the end: list(cursor)
find(docs, query, ok) == FindSpec(docs, FilterOrEmpty(query), ok)

FindFirst(found) ==
    IF found.kind = "raise" THEN found
    ELSE IF found.value = <<>> THEN Return(None)
    ELSE Return(Dict(Head(found.value)))

\* collection.find_one(query): the first matching document, or None
find_one(docs, query, ok) == FindFirst(find(docs, query, ok))

\* the value the store generates for the _id field; no operation reads it
ObjectId == [t |-> "ObjectId"]
WithId(doc) == doc @@ ("_id" :> ObjectId)

\* collection.insert_one(document): outcome and the documents afterwards
insert_one(docs, document, ok) ==
    IF ~isinstance_dict(document)
    THEN [outcome |-> Raise("TypeError", "document must be an instance of dict"),
          docs |-> docs]
    ELSE IF ~ok THEN [outcome |-> StoreDown, docs |-> docs]
    ELSE [outcome |-> Return(None), docs |-> Append(docs, WithId(document.items))]

\* the first position of docs that holds a match of query
FirstMatch(docs, query) ==
    CHOOSE i \in 1..Len(docs) :
        Matches(docs[i], query) /\ \A j \in 1..(i - 1) : ~Matches(docs[j], query)

\* delete_one in place of delete_many: only the first match goes
delete_many_One(docs, query, ok) ==
    IF FilterError(query) # Pending
    THEN [outcome |-> FilterError(query), docs |-> docs]
    ELSE IF ~ok THEN [outcome |-> StoreDown, docs |-> docs]
    ELSE IF MatchingDocs(docs, query) = <<>> THEN [outcome |-> Return(0), docs |-> docs]
    ELSE [outcome |-> Return(1),
          docs |-> SubSeq(docs, 1, FirstMatch(docs, query) - 1)
                   \o SubSeq(docs, FirstMatch(docs, query) + 1, Len(docs))]

\* collection.delete_many(query): deleted_count and the documents afterwards
delete_many(docs, query, ok) ==
    IF FilterError(query) # Pending
    THEN [outcome |-> FilterError(query), docs |-> docs]
    ELSE IF ~ok THEN [outcome |-> StoreDown, docs |-> docs]
    ELSE [outcome |-> Return(Len(MatchingDocs(docs, query))),
          docs |-> OtherDocs(docs, query)]

\* the update operators of the model
UpdateOperators == {"$set", "$unset"}

\* what the driver and the server refuse in an update document: one that is
\* not a mapping, an empty one, a key that is no update operator, an operator
\* whose operand is no document or names a '$' field
UpdateError(update) ==
    IF ~isinstance_dict(update)
    THEN Raise("TypeError", "update must be an instance of dict or list")
    ELSE IF Keys(update) = {}
    THEN Raise("ValueError", "update cannot be empty")
    ELSE IF \E k \in Keys(update) : ~startswith_dollar(k)
    THEN Raise("ValueError", "update only works with $ operators")
    ELSE IF \E k \in Keys(update) :
              \/ k \notin UpdateOperators
              \/ ~isinstance_dict(update.items[k])
              \/ \E f \in Keys(update.items[k]) : startswith_dollar(f)
    THEN Raise("WriteError", "invalid update document")
    ELSE Pending

OperandOf(update, operator) ==
    IF operator \in Keys(update) THEN update.items[operator].items ELSE EmptyDoc

\* one document after $set and $unset
SetFields(doc, fields) ==
    [k \in DOMAIN doc \cup DOMAIN fields |->
        IF k \in DOMAIN fields THEN fields[k] ELSE doc[k]]
UnsetFields(doc, fields) == [k \in DOMAIN doc \ DOMAIN fields |-> doc[k]]
ApplyUpdate(doc, update) ==
    UnsetFields(SetFields(doc, OperandOf(update, "$set")),
                OperandOf(update, "$unset"))

UpdatedDocs(docs, query, update) ==
    [i \in 1..Len(docs) |->
        IF Matches(docs[i], query) THEN ApplyUpdate(docs[i], update) ELSE docs[i]]

\* modified_count: the documents the update actually changed
ModifiedCount(docs, query, update) ==
    Cardinality({i \in 1..Len(docs) : UpdatedDocs(docs, query, update)[i] # docs[i]})

\* collection.update_many(query, update): outcome and the documents afterwards
update_many(docs, query, update, ok) ==
    IF FilterError(query) # Pending
    THEN [outcome |-> FilterError(query), docs |-> docs]
    ELSE IF UpdateError(update) # Pending
    THEN [outcome |-> UpdateError(update), docs |-> docs]
    ELSE IF ~ok THEN [outcome |-> StoreDown, docs |-> docs]
    ELSE [outcome |-> Return(ModifiedCount(docs, query, update)),
          docs |-> UpdatedDocs(docs, query, update)]

-----------------------------------------------------------------------------
(* AnimalShelter: create, read, update, delete *)

\* what a method call comes to: the value it returns, the documents of the
\* collection afterwards, the exception an except clause caught ("none" when
\* none was raised) and the update document handed to update_many, if any
Done(ret, docs, raised, sent) ==
    [ret |-> ret, docs |-> docs, raised |-> raised, sent |-> sent]

validate_input(data) == data # None

\* {"animal_id": animal_id}
IdFilter(data) == Dict("animal_id" :> dict_get(data, "animal_id"))

\* self.collection.insert_one(data); return True
CreateInserted(inserted) ==
    IF inserted.outcome.kind = "raise"
    THEN Done(FALSE, inserted.docs, inserted.outcome.exc, None)
    ELSE Done(TRUE, inserted.docs, "none", None)

\* the insert without the duplicate check
CreateFound_NoCheck(docs, data, existing, ok_insert) ==
    IF existing.kind = "raise" THEN Done(FALSE, docs, existing.exc, None)
    ELSE CreateInserted(insert_one(docs, data, ok_insert))

\* existing = self.collection.find_one(...); if existing: return False
CreateFound(docs, data, existing, ok_insert) ==
    IF existing.kind = "raise" THEN Done(FALSE, docs, existing.exc, None)
    ELSE IF Truthy(existing.value) THEN Done(FALSE, docs, "none", None)
    ELSE CreateInserted(insert_one(docs, data, ok_insert))

create(docs, data, ok_find, ok_insert) ==
    IF ~validate_input(data) THEN Done(FALSE, docs, "none", None)
    ELSE IF ~isinstance_dict(data) THEN Done(FALSE, docs, "AttributeError", None)
    ELSE IF ~Truthy(dict_get(data, "animal_id")) THEN Done(FALSE, docs, "none", None)
    ELSE CreateFound(docs, data, find_one(docs, IdFilter(data), ok_find), ok_insert)

ReadFound(docs, found) ==
    IF found.kind = "raise" THEN Done(<<>>, docs, found.exc, None)
    ELSE Done(found.value, docs, "none", None)

read(docs, query, ok) ==
    IF ~validate_input(query) THEN Done(<<>>, docs, "none", None)
    ELSE ReadFound(docs, find(docs, query, ok))

\* any(key.startswith('$') for key in update_data): over the keys of a dict,
\* the characters of a str, the elements of a list; other values do not iterate
has_operator(update_data) ==
    CASE update_data.t = "dict" ->
            Return(\E key \in Keys(update_data) : startswith_dollar(key))
      [] update_data.t = "str" ->
            Return(\E i \in 1..Len(update_data.s) : SubSeq(update_data.s, i, i) = "$")
      [] update_data.t = "list" ->
            Return(/\ update_data # EmptyList
                   /\ \E i \in 1..Len(update_data.items) :
                          startswith_dollar(update_data.items[i].s))
      [] OTHER -> Raise("TypeError", "object is not iterable")

\* the wrap applied whether or not an operator was found
WrapUpdate_Always(update_data, found) == Dict("$set" :> update_data)

\* if not has_operator: update_data = {"$set": update_data}
WrapUpdate(update_data, found) ==
    IF found THEN update_data ELSE Dict("$set" :> update_data)

\* return result.modified_count
UpdateResult(updated, sent) ==
    IF updated.outcome.kind = "raise"
    THEN Done(0, updated.docs, updated.outcome.exc, sent)
    ELSE Done(updated.outcome.value, updated.docs, "none", sent)

UpdateSent(docs, query, sent, ok) ==
    UpdateResult(update_many(docs, query, sent, ok), sent)

UpdateChecked(docs, query, update_data, found, ok) ==
    IF found.kind = "raise" THEN Done(0, docs, found.exc, None)
    ELSE UpdateSent(docs, query, WrapUpdate(update_data, found.value), ok)

update(docs, query, update_data, ok) ==
    IF ~validate_input(query) THEN Done(0, docs, "none", None)
    ELSE IF ~validate_input(update_data) THEN Done(0, docs, "none", None)
    ELSE UpdateChecked(docs, query, update_data, has_operator(update_data), ok)

\* return result.deleted_count
DeleteResult(deleted) ==
    IF deleted.outcome.kind = "raise"
    THEN Done(0, deleted.docs, deleted.outcome.exc, None)
    ELSE Done(deleted.outcome.value, deleted.docs, "none", None)

delete(docs, query, ok) ==
    IF ~validate_input(query) THEN Done(0, docs, "none", None)
    ELSE DeleteResult(delete_many(docs, query, ok))

-----------------------------------------------------------------------------
(* Arguments of the AnimalShelter calls, after the test fixtures *)

\* INVALID_DATA_SAMPLES without None, and two that are empty
NonRecords ==
    {Str("string_instead_of_dict"), PyInt(123), PyList(<<Str("list")>>), PyBool(TRUE),
     Str(""), EmptyList}

\* records like SAMPLE_ANIMAL_DATA, EMPTY_ID_DATA and EMPTY_OBJECT
SampleRecords ==
    { Dict(Field("animal_id", id) @@ Field("name", name)) :
        id \in {Absent, None, Str(""), Str("A1"), Str("A2")},
        name \in {Absent, Str("Rex"), Str("Max")} }

CreateArgs == {None} \cup NonRecords \cup SampleRecords

\* QUERY_SAMPLES, a null value and an unknown operator
QueryRecords ==
    { Dict(EmptyDoc),
      Dict("animal_id" :> Str("A1")),
      Dict("animal_id" :> Str("A2")),
      Dict("animal_id" :> Str("NonExistentID")),
      Dict("name" :> Str("Rex")),
      Dict("name" :> None),
      Dict("$near" :> Str("Rex")) }

QueryArgs == {None} \cup NonRecords \cup QueryRecords

\* UPDATE_SAMPLES: plain fields, explicit operators, both at once, none
UpdateRecords ==
    { Dict("name" :> Str("Max")),
      Dict("animal_id" :> Str("A1")),
      Dict("$set" :> Dict("name" :> Str("Max"))),
      Dict("$unset" :> Dict("name" :> Str(""))),
      Dict(("$set" :> Dict("name" :> Str("Max"))) @@ ("name" :> Str("Rex"))),
      Dict("$bump" :> Dict("name" :> PyInt(1))),
      Dict(EmptyDoc) }

UpdateArgs == {None, Str("$set")} \cup NonRecords \cup UpdateRecords

-----------------------------------------------------------------------------
(* One client calling the four methods, one call after the other *)

\* whether the store answers a call: it may fail only when a call reaches it
StoreAnswers(arg) == IF arg \in QueryRecords \cup {Str(""), EmptyList} THEN BOOLEAN ELSE {TRUE}

\* the faults of one create: none, find_one fails, insert_one fails
CreateAnswers(data) ==
    IF data \in SampleRecords
    THEN {<<TRUE, TRUE>>, <<FALSE, TRUE>>, <<TRUE, FALSE>>}
    ELSE {<<TRUE, TRUE>>}

\* every update on a record query; one plain update on every other query
UpdateCalls ==
    (QueryRecords \X UpdateArgs) \cup (QueryArgs \X {Dict("name" :> Str("Max"))})

Call(name, data, query, update_data, before, done) ==
    [name |-> name, data |-> data, query |-> query, update_data |-> update_data,
     before |-> before, raised |-> done.raised, sent |-> done.sent]

InitStore ==
    /\ age_case = [kind |-> "literal", value |-> None]
    /\ age_arg = None
    /\ age_ret = Pending
    /\ raw_df = None
    /\ norm_ret = Pending
    /\ df = None
    /\ filter_case = None
    /\ filter_type = None
    /\ filter_ret = Pending
    /\ call = None
    /\ call_ret = Pending
    /\ heap = <<>>
    /\ arg_ref = None
    /\ ret_ref = Pending
    /\ expected = None
    /\ collection = <<>>
    /\ op = None
    /\ op_ret = Pending
    /\ procs = <<>>

\* shelter.create(data)
Create ==
    \E data \in CreateArgs :
      \E ok \in CreateAnswers(data) :
        \E done \in {create(collection, data, ok[1], ok[2])} :
            /\ Len(done.docs) <= MaxDocs
            /\ collection' = done.docs
            /\ op' = Call("create", data, None, None, collection, done)
            /\ op_ret' = Return(done.ret)
            /\ UNCHANGED <<ageVars, batchVars, filterVars, helperVars, copyVars, procs>>

\* shelter.read(query)
Read ==
    \E query \in QueryArgs :
      \E ok \in StoreAnswers(query) :
        \E done \in {read(collection, query, ok)} :
            /\ collection' = done.docs
            /\ op' = Call("read", None, query, None, collection, done)
            /\ op_ret' = Return(done.ret)
            /\ UNCHANGED <<ageVars, batchVars, filterVars, helperVars, copyVars, procs>>

\* shelter.update(query, update_data)
Update ==
    \E args \in UpdateCalls :
      \E ok \in StoreAnswers(args[1]) :
        \E done \in {update(collection, args[1], args[2], ok)} :
            /\ collection' = done.docs
            /\ op' = Call("update", None, args[1], args[2], collection, done)
            /\ op_ret' = Return(done.ret)
            /\ UNCHANGED <<ageVars, batchVars, filterVars, helperVars, copyVars, procs>>

\* shelter.delete(query)
Delete ==
    \E query \in QueryArgs :
      \E ok \in StoreAnswers(query) :
        \E done \in {delete(collection, query, ok)} :
            /\ collection' = done.docs
            /\ op' = Call("delete", None, query, None, collection, done)
            /\ op_ret' = Return(done.ret)
            /\ UNCHANGED <<ageVars, batchVars, filterVars, helperVars, copyVars, procs>>

NextStore == Create \/ Read \/ Update \/ Delete

SpecStore == InitStore /\ [][NextStore]_vars

-----------------------------------------------------------------------------
(* Two clients inside create at once: find_one and insert_one are two steps *)

Clients == {1, 2}

\* the records the two clients create
ClientRecords ==
    { Dict(Field("animal_id", id) @@ Field("name", name)) :
        id \in {Str(""), Str("A1"), Str("A2")}, name \in {Absent, Str("Rex"), Str("Max")} }

StoredBefore == {<<>>, <<WithId("animal_id" :> Str("A2"))>>}

InitClients ==
    /\ age_case = [kind |-> "literal", value |-> None]
    /\ age_arg = None
    /\ age_ret = Pending
    /\ raw_df = None
    /\ norm_ret = Pending
    /\ df = None
    /\ filter_case = None
    /\ filter_type = None
    /\ filter_ret = Pending
    /\ call = None
    /\ call_ret = Pending
    /\ heap = <<>>
    /\ arg_ref = None
    /\ ret_ref = Pending
    /\ expected = None
    /\ collection \in StoredBefore
    /\ op = [name |-> "create", before |-> collection]
    /\ op_ret = Pending
    /\ procs \in [Clients -> [pc : {"validate"}, data : ClientRecords, ret : {Pending}]]

\* lines 160-169: the argument checks
Validate(c) ==
    /\ procs # <<>>
    /\ procs[c].pc = "validate"
    /\ procs' = [procs EXCEPT ![c] =
          IF ~validate_input(@.data) \/ ~Truthy(dict_get(@.data, "animal_id"))
          THEN [@ EXCEPT !.pc = "done", !.ret = Return(FALSE)]
          ELSE [@ EXCEPT !.pc = "find_one"]]
    /\ UNCHANGED <<ageVars, batchVars, filterVars, helperVars, copyVars,
                   collection, op, op_ret>>

\* lines 173-176: existing = find_one(...); if existing: return False
FindOne(c) ==
    /\ procs # <<>>
    /\ procs[c].pc = "find_one"
    /\ \E ok \in BOOLEAN :
        \E existing \in {find_one(collection, IdFilter(procs[c].data), ok)} :
          procs' = [procs EXCEPT ![c] =
              IF existing.kind = "raise" \/ Truthy(existing.value)
              THEN [@ EXCEPT !.pc = "done", !.ret = Return(FALSE)]
              ELSE [@ EXCEPT !.pc = "insert_one"]]
    /\ UNCHANGED <<ageVars, batchVars, filterVars, helperVars, copyVars,
                   collection, op, op_ret>>

\* lines 180-181: insert_one(data); return True
InsertOne(c) ==
    /\ procs # <<>>
    /\ procs[c].pc = "insert_one"
    /\ \E ok \in BOOLEAN :
        \E done \in {CreateInserted(insert_one(collection, procs[c].data, ok))} :
          /\ collection' = done.docs
          /\ procs' = [procs EXCEPT ![c] = [@ EXCEPT !.pc = "done", !.ret = Return(done.ret)]]
    /\ UNCHANGED <<ageVars, batchVars, filterVars, helperVars, copyVars, op, op_ret>>

NextClients == \E c \in Clients : Validate(c) \/ FindOne(c) \/ InsertOne(c)

SpecClients == InitClients /\ [][NextClients]_vars

-----------------------------------------------------------------------------
(* Properties of parse_age_to_weeks *)

AgeReturned == age_ret # Pending

AgeNonNull == age_ret.kind = "return" /\ age_ret.value # None

\* the argument as line 42 leaves it
AgeText == str_lower(str_strip(age_arg.s))

\* the number a formatted case writes, as a fraction
CaseValue(c) == Float(c.whole * Pow10(c.frac.digits) + c.frac.n, Pow10(c.frac.digits))

ExpectedWeeks(c) ==
    CASE c.unit = "year"  -> Float(CaseValue(c).n * 52143, CaseValue(c).d * 1000)
      [] c.unit = "month" -> Float(CaseValue(c).n * 4345, CaseValue(c).d * 1000)
      [] c.unit = "week"  -> CaseValue(c)
      [] c.unit = "day"   -> Float(CaseValue(c).n, CaseValue(c).d * 7)

\* the same number and unit written plainly: lower case, singular, one space
PlainAge(c) ==
    [c EXCEPT !.sep = " ", !.plural = FALSE, !.style = "lower", !.lpad = 0, !.rpad = 0]

\* '<n> <unit>': whitespace between number and unit, nothing after the unit
WellFormedCase(c) ==
    /\ c.kind = "formatted"
    /\ c.sep # ""
    /\ c.tail = ""
    /\ CaseValue(c).n > 0

\* C8: for every accepted input '<n> <unit>' with n > 0 the result is
\* n * 52.143 (year), n * 4.345 (month), n (week) or n / 7 (day), and it is the
\* result of the same number and unit written in lower case, singular and
\* without surrounding whitespace.  The model's arithmetic is exact, so the
\* result is stated as equal to, not only within 0.001 of, the product.
C8_AgeConversion ==
    (AgeReturned /\ WellFormedCase(age_case)) =>
        /\ age_ret = Return(ExpectedWeeks(age_case))
        /\ age_ret = parse_age_to_weeks(Str(FormatAge(PlainAge(age_case))))

C8_Witness ==
    /\ AgeReturned
    /\ WellFormedCase(age_case)
    /\ age_case.unit = "month"
    /\ age_case.plural
    /\ age_case.style = "upper"
    /\ age_case.lpad = 1
    /\ age_case.frac.digits = 2
    /\ age_case.frac.n = 25
    /\ AgeNonNull

IsDigits(s) == s # "" /\ \A i \in 1..Len(s) : CharAt(s, i) \in Digits

IsSpaces(s) == \A i \in 1..Len(s) : CharAt(s, i) \in Whitespace

\* <number>: digits, or digits "." digits
IsNumber(s) ==
    \/ IsDigits(s)
    \/ \E p \in 2..(Len(s) - 1) :
          /\ IsDigits(SubSeq(s, 1, p - 1))
          /\ CharAt(s, p) = "."
          /\ IsDigits(SubSeq(s, p + 1, Len(s)))

IsPositiveNumber(s) ==
    IsNumber(s) /\ \E i \in 1..Len(s) : CharAt(s, i) \in (Digits \ {"0", "."})

UnitWords == {"year", "month", "week", "day"}

\* s as a whole is <number><whitespace><unit>[s]
WholeForm(s) ==
    \E i \in 1..Len(s), j \in 1..Len(s) :
        /\ i < j
        /\ IsNumber(SubSeq(s, 1, i))
        /\ IsSpaces(SubSeq(s, i + 1, j))
        /\ \E u \in UnitWords : SubSeq(s, j + 1, Len(s)) \in {u, u \o "s"}

\* s begins with <positive number><optional whitespace><unit>
PrefixForm(s) ==
    \E i \in 1..Len(s), j \in 1..Len(s) :
        /\ i <= j
        /\ IsPositiveNumber(SubSeq(s, 1, i))
        /\ IsSpaces(SubSeq(s, i + 1, j))
        /\ \E u \in UnitWords : StartsWithAt(s, j + 1, u)

\* C9 as stated: a non-null result only when the trimmed, lower-cased input as
\* a whole is <number><whitespace><unit>[s]
C9_WholeFormOnly ==
    (AgeReturned /\ isinstance_str(age_arg) /\ AgeNonNull) => WholeForm(AgeText)

\* C9, amended: a string yields a non-null result exactly when, trimmed and
\* lower-cased, it begins with <number><optional whitespace><unit> and the
\* number is greater than 0; characters after the unit are ignored
C9_PrefixForm ==
    (AgeReturned /\ isinstance_str(age_arg)) =>
        /\ age_ret.kind = "return"
        /\ (age_ret.value # None) <=> PrefixForm(AgeText)

C9_Witness ==
    /\ AgeReturned
    /\ age_case.kind = "formatted"
    /\ age_case.sep = ""
    /\ age_case.tail = "x"
    /\ AgeNonNull
    /\ ~WholeForm(AgeText)

\* the inputs C10 lists: null, non-string, empty or whitespace-only, a zero or
\* negative number, no match of the age pattern
AgeInputInvalid ==
    \/ age_arg = None
    \/ ~isinstance_str(age_arg)
    \/ str_strip(age_arg.s) = ""
    \/ ~PrefixForm(AgeText)

\* C10: parse_age_to_weeks never raises, and returns null for every input that
\* is null, not a string, empty or whitespace-only, has a zero or negative
\* number or does not match the age pattern
C10_AgeTotal ==
    AgeReturned =>
        /\ age_ret.kind = "return"
        /\ AgeInputInvalid => age_ret.value = None

C10_Witness ==
    /\ age_arg = PyInt(123)
    /\ age_ret = Return(None)

-----------------------------------------------------------------------------
(* Properties of the rescue filters *)

FilterDone == filter_ret # Pending

Disciplines == {"water", "mountain", "disaster"}

\* the rule table: sex and inclusive age range (weeks) of each discipline
RuleSex(disc) == IF disc = "water" THEN "Female" ELSE "Male"
RuleMinAge(disc) == IF disc = "disaster" THEN 20 ELSE 26
RuleMaxAge(disc) == IF disc = "disaster" THEN 300 ELSE 156

IsNumberCell(cell) == cell # None /\ cell.t = "float"

AgeBelow(cell, k) == IsNumberCell(cell) /\ cell.n < k * cell.d
AgeAbove(cell, k) == IsNumberCell(cell) /\ cell.n > k * cell.d
AgeWithin(cell, lo, hi) == IsNumberCell(cell) /\ ~AgeBelow(cell, lo) /\ ~AgeAbove(cell, hi)

BreedSexIntact(row, disc) ==
    /\ breed_matches_rescue_type(row["breed"], Str(disc))
    /\ row["sex"] = Str(RuleSex(disc))
    /\ row["intact_status"] = Str("Intact")

Qualifies(row, disc) ==
    /\ BreedSexIntact(row, disc)
    /\ AgeWithin(row["age_weeks"], RuleMinAge(disc), RuleMaxAge(disc))

\* the rows of d that qualify for disc, in their order, under d's columns
Candidates(d, disc) ==
    DataFrame(d.columns, SelectSeq(d.rows, LAMBDA r : Qualifies(r, disc)))

InFrame(row, d) == \E j \in 1..Len(d.rows) : d.rows[j] = row

\* C1: apply_rescue_filter(batch, d) for d in {water, mountain, disaster}
\* returns exactly the rows that satisfy all four clauses of d's rule (breed,
\* sex, intact status, age range)
C1_AllClauses ==
    (FilterDone /\ filter_case.name \in Disciplines) =>
        filter_ret = Return(Candidates(df, filter_case.name))

\* a two-row batch whose first row is a water candidate and whose second row
\* fails the sex clause alone
C1_Witness ==
    /\ FilterDone
    /\ filter_case.name = "water"
    /\ Len(df.rows) = 2
    /\ Qualifies(df.rows[1], "water")
    /\ df.rows[2]["breed"] = Str("Labrador Retriever Mix")
    /\ df.rows[2]["sex"] = Str("Male")
    /\ df.rows[2]["intact_status"] = Str("Intact")
    /\ df.rows[2]["age_weeks"] = Float(52, 1)
    /\ filter_ret = Return(DataFrame(df.columns, <<df.rows[1]>>))

\* C2: among the rows that satisfy the breed, sex and intact clauses, a row
\* whose age is the lower or the upper bound of the range is returned and a
\* row whose age is below the lower or above the upper bound is not
C2_InclusiveBounds ==
    (FilterDone /\ filter_case.name \in Disciplines) =>
        /\ filter_ret.kind = "return"
        /\ \A i \in 1..Len(df.rows) :
              LET row == df.rows[i]
                  lo  == RuleMinAge(filter_case.name)
                  hi  == RuleMaxAge(filter_case.name)
              IN  BreedSexIntact(row, filter_case.name) =>
                    /\ row["age_weeks"] \in {Float(lo, 1), Float(hi, 1)}
                          => InFrame(row, filter_ret.value)
                    /\ (AgeBelow(row["age_weeks"], lo) \/ AgeAbove(row["age_weeks"], hi))
                          => ~InFrame(row, filter_ret.value)

\* a disaster batch with one row at 300 weeks (kept) and one at 301 (dropped)
C2_Witness ==
    /\ FilterDone
    /\ filter_case.name = "disaster"
    /\ Len(df.rows) = 2
    /\ BreedSexIntact(df.rows[1], "disaster")
    /\ BreedSexIntact(df.rows[2], "disaster")
    /\ df.rows[1]["age_weeks"] = Float(300, 1)
    /\ df.rows[2]["age_weeks"] = Float(301, 1)
    /\ filter_ret = Return(DataFrame(df.columns, <<df.rows[1]>>))

\* the frame without the rows whose age_weeks is missing
WithoutNullAge(d) ==
    DataFrame(d.columns, SelectSeq(d.rows, LAMBDA r : ~IsNull(r["age_weeks"])))

HasNullAge(d) == \E i \in 1..Len(d.rows) : IsNull(d.rows[i]["age_weeks"])

\* C3: for every discipline other than reset the call returns, no returned row
\* has a null age_weeks, and the rows returned are those returned for the batch
\* without its null-age rows
C3_NullAgeExcluded ==
    (FilterDone /\ filter_case.name \in Disciplines \cup {"wilderness", "tracking"}) =>
        /\ filter_ret.kind = "return"
        /\ ~HasNullAge(filter_ret.value)
        /\ filter_ret = apply_rescue_filter(WithoutNullAge(df), filter_type)

\* a null-age row that would otherwise be a water candidate, followed by a
\* water candidate
C3_Witness ==
    /\ FilterDone
    /\ filter_case.name = "water"
    /\ Len(df.rows) >= 2
    /\ IsNull(df.rows[1]["age_weeks"])
    /\ BreedSexIntact(df.rows[1], "water")
    /\ Qualifies(df.rows[2], "water")
    /\ filter_ret.kind = "return"
    /\ InFrame(df.rows[2], filter_ret.value)

ValidFilterNames ==
    {"water", "mountain", "wilderness", "disaster", "tracking", "reset", ""}

\* the principal name of an accepted name
Principal(name) ==
    CASE name = "wilderness" -> "mountain"
      [] name = "tracking"   -> "disaster"
      [] name = ""           -> "reset"
      [] OTHER               -> name

\* C4: whatever the letter case and the surrounding whitespace of the name,
\* water selects the water rule, mountain and wilderness the mountain rule,
\* disaster and tracking the disaster rule, reset and '' no filtering; the
\* result is that of the plain principal name
C4_NameResolution ==
    (FilterDone /\ filter_case.name \in ValidFilterNames) =>
        /\ filter_ret = IF Principal(filter_case.name) = "reset"
                        THEN Return(df)
                        ELSE Return(Candidates(df, Principal(filter_case.name)))
        /\ filter_ret = apply_rescue_filter(df, Str(Principal(filter_case.name)))

C4_Witness ==
    /\ FilterDone
    /\ filter_case = [name |-> "wilderness", style |-> "upper", lpad |-> 1, rpad |-> 1]
    /\ filter_type = Str(" WILDERNESS ")
    /\ filter_ret.kind = "return"
    /\ Len(filter_ret.value.rows) = 1
    /\ Len(df.rows) = 3

\* C5: 'reset' and '' return the input: every row, same values, same order
C5_ResetUnchanged ==
    (FilterDone /\ filter_case.name \in {"reset", ""}) => filter_ret = Return(df)

C5_Witness ==
    /\ FilterDone
    /\ filter_case.name = ""
    /\ Len(df.rows) = 3
    /\ HasNullAge(df)
    /\ df.rows[1] # df.rows[2]
    /\ filter_ret = Return(df)

\* C6: a name that, trimmed and lower-cased, is not accepted makes the call
\* raise ValueError (the InvalidFilterError), with a message that holds the
\* trimmed, lower-cased name and every name of the valid set
C6_InvalidName ==
    (FilterDone /\ filter_case.name \notin ValidFilterNames) =>
        /\ filter_ret.kind = "raise"
        /\ filter_ret.exc = "ValueError"
        /\ str_contains(filter_ret.msg, "'" \o filter_case.name \o "'")
        /\ \A v \in {"water", "mountain", "disaster", "tracking", "reset"} :
              str_contains(filter_ret.msg, v)

C6_Witness ==
    /\ FilterDone
    /\ filter_case = [name |-> "invalid", style |-> "upper", lpad |-> 1, rpad |-> 0]
    /\ filter_ret.kind = "raise"
    /\ Len(df.rows) > 0

\* the raw batch of C7: A001, A002, A003 in this order
EndToEndBatch ==
    <<RawRow(Str("A001"), Str("Labrador Retriever Mix"), Str("2 years"),
             Str("Intact Female"), Float(30267, 1000), SignedFloat(-1, 97743, 1000)),
      RawRow(Str("A002"), Str("German Shepherd"), Str("150 weeks"),
             Str("Intact Male"), Float(30268, 1000), SignedFloat(-1, 97744, 1000)),
      RawRow(Str("A003"), Str("Doberman Pinscher"), Str("4 years"),
             Str("Intact Male"), Float(30269, 1000), SignedFloat(-1, 97745, 1000))>>

AnimalIds(d) == [i \in 1..Len(d.rows) |-> d.rows[i]["animal_id"].s]

\* C7: for the raw batch A001, A002, A003, normalized, water returns exactly
\* A001, mountain exactly A002, disaster exactly A002 and A003, reset all three
C7_EndToEnd ==
    (FilterDone /\ raw_df.rows = EndToEndBatch
        /\ filter_case.name \in {"water", "mountain", "disaster", "reset"}) =>
        /\ filter_ret.kind = "return"
        /\ AnimalIds(filter_ret.value) =
              CASE filter_case.name = "water"    -> <<"A001">>
                [] filter_case.name = "mountain" -> <<"A002">>
                [] filter_case.name = "disaster" -> <<"A002", "A003">>
                [] filter_case.name = "reset"    -> <<"A001", "A002", "A003">>

C7_Witness ==
    /\ FilterDone
    /\ raw_df.rows = EndToEndBatch
    /\ filter_case = [name |-> "disaster", style |-> "lower", lpad |-> 0, rpad |-> 0]
    /\ norm_ret.kind = "return"
    /\ df = norm_ret.value
    /\ filter_ret.kind = "return"
    /\ AnimalIds(filter_ret.value) = <<"A002", "A003">>

-----------------------------------------------------------------------------
(* Properties of the other helpers *)

HelperReturned(fn) == call # None /\ call.fn = fn /\ call_ret # Pending

WordsOf(c) == {c.words[k] : k \in 1..Len(c.words)}

\* sex and intact status named by a set of words, each decided on its own
SexNamed(words) ==
    IF "female" \in words THEN "Female"
    ELSE IF "male" \in words THEN "Male"
    ELSE "Unknown"

IntactNamed(words) ==
    IF "neutered" \in words THEN "Neutered"
    ELSE IF "spayed" \in words THEN "Spayed"
    ELSE IF "intact" \in words THEN "Intact"
    ELSE "Unknown"

\* C11: normalize_sex_intact gives ('Unknown', 'Unknown') for None, non-str,
\* empty and 'unknown' inputs; otherwise sex is Female if 'female' occurs, else
\* Male if 'male' occurs, else Unknown, and intact_status is Neutered, else
\* Spayed, else Intact by the first of these that occurs, else Unknown; one
\* attribute does not influence the other, nor do letter case and surrounding
\* whitespace
C11_SexIntact ==
    HelperReturned("normalize_sex_intact") =>
        /\ call_ret.kind = "return"
        /\ call_ret.value =
              IF call.kind = "literal"
              THEN <<Str("Unknown"), Str("Unknown")>>
              ELSE <<Str(SexNamed(WordsOf(call))), Str(IntactNamed(WordsOf(call)))>>

\* ' NEUTERED MALE ' gives ('Male', 'Neutered')
C11_Witness ==
    /\ HelperReturned("normalize_sex_intact")
    /\ call.kind = "words"
    /\ call.words = <<"neutered", "male">>
    /\ call.style = "upper"
    /\ call.lpad = 1
    /\ call.rpad = 1
    /\ call_ret = Return(<<Str("Male"), Str("Neutered")>>)

\* the case is a number (however written) within [lo, hi] thousandths
NumberWithin(c, lo, hi) == c.kind = "number" /\ lo <= c.milli /\ c.milli <= hi

ValidPair(lat, lon) ==
    /\ NumberWithin(lat, -90000, 90000)
    /\ NumberWithin(lon, -180000, 180000)

\* C12: validate_coordinates(lat, lon) returns true if and only if both values
\* are present, coercible to a number, not NaN and within [-90, 90] and
\* [-180, 180], boundaries included; every coercion failure gives false and
\* never an exception
C12_CoordTotal ==
    HelperReturned("validate_coordinates") =>
        /\ call_ret.kind = "return"
        /\ call_ret.value = ValidPair(call.lat, call.lon)

\* float() is reached with an int beyond the float range
OverflowReached(c) ==
    \/ c.lat = [kind |-> "literal", value |-> BigInt]
    \/ /\ c.lon = [kind |-> "literal", value |-> BigInt]
       /\ float_of(CoordArgOf(c.lat)).kind = "return"

\* what the code does: the iff of C12 on every call that returns, and an
\* OverflowError exactly when float() is reached with such an int
C12_CoordExceptOverflow ==
    HelperReturned("validate_coordinates") =>
        IF OverflowReached(call)
        THEN call_ret.kind = "raise" /\ call_ret.exc = "OverflowError"
        ELSE call_ret = Return(ValidPair(call.lat, call.lon))

\* validate_coordinates(10**400, 0) has raised OverflowError
C12_Witness ==
    /\ HelperReturned("validate_coordinates")
    /\ CoordArgOf(call.lat) = BigInt
    /\ CoordArgOf(call.lon) = PyInt(0)
    /\ call_ret.kind = "raise"
    /\ call_ret.exc = "OverflowError"

\* ' 90 ' and -180.0, both boundaries, are valid
C12_BoundaryWitness ==
    /\ HelperReturned("validate_coordinates")
    /\ CoordArgOf(call.lat) = Str(" 90 ")
    /\ CoordArgOf(call.lon) = SignedFloat(1, -180000, 1000)
    /\ call_ret = Return(TRUE)

\* the canonical breed names of a discipline
CanonicalBreeds(discipline) ==
    CASE discipline = "water" ->
            {"labrador retriever", "chesapeake bay retriever", "newfoundland"}
      [] discipline = "mountain" ->
            {"german shepherd", "alaskan malamute", "old english sheepdog",
             "siberian husky", "rottweiler"}
      [] discipline \in {"disaster", "tracking"} ->
            {"doberman pinscher", "german shepherd", "golden retriever",
             "bloodhound", "rottweiler"}
      [] OTHER -> {}

\* the breed argument is a str that holds a canonical name of the discipline
NamesBreedOf(c, discipline) ==
    c.breed.kind = "named" /\ c.breed.name \in CanonicalBreeds(discipline)

\* C13 as stated: true if and only if breed is a non-empty string, the
\* discipline is, but for letter case, water, mountain, disaster or tracking,
\* and a canonical breed name of its set occurs in the lower-cased breed
C13_DisciplineCaseOnly ==
    HelperReturned("breed_matches_rescue_type") =>
        call_ret = Return(/\ call.rescue_type.pad = 0
                          /\ NamesBreedOf(call, call.rescue_type.name))

\* C13: true if and only if breed is a non-empty string, the discipline is,
\* after trimming surrounding whitespace and lower-casing, water, mountain,
\* disaster or tracking, and a canonical breed name of its set occurs in the
\* lower-cased breed; null, non-string, empty breed and any other discipline
\* give false
C13_BreedMatch ==
    HelperReturned("breed_matches_rescue_type") =>
        call_ret = Return(NamesBreedOf(call, call.rescue_type.name))

\* 'Labrador retriever/pit bull' matches ' WATER '
C13_Witness ==
    /\ HelperReturned("breed_matches_rescue_type")
    /\ BreedArgOf(call.breed) = Str("Labrador retriever/pit bull")
    /\ RescueTypeArgOf(call.rescue_type) = Str(" WATER ")
    /\ call_ret = Return(TRUE)

DistinctValues(values) == {values[i] : i \in 1..Len(values)}

\* the place of a category value in ascending lexicographic order
Position(v) == CHOOSE k \in 1..Len(CategoryOrder) : CategoryOrder[k] = v

\* u is ranked before v: more occurrences, or as many and the lesser value
RankedBefore(u, v, values) ==
    \/ Occurrences(values, u) > Occurrences(values, v)
    \/ /\ Occurrences(values, u) = Occurrences(values, v)
       /\ Position(u) < Position(v)

\* the number of distinct values ranked before v
Rank(v, values) ==
    Cardinality({u \in DistinctValues(values) : RankedBefore(u, v, values)})

Reversed(values) == [i \in 1..Len(values) |-> values[Len(values) + 1 - i]]

\* C14: for a non-empty list and top_n >= 1, bucket_categories maps each of
\* the first top_n distinct values, ranked by descending count and then
\* ascending lexicographic value, to itself and every other distinct value to
\* 'Other'; the result does not depend on the order of the list
C14_Ranking ==
    (HelperReturned("bucket_categories") /\ call.values # <<>> /\ call.top_n >= 1) =>
        /\ call_ret = Return([v \in DistinctValues(call.values) |->
                                IF Rank(v, call.values) < call.top_n THEN v ELSE "Other"])
        /\ call_ret = Return(bucket_categories(Reversed(call.values), call.top_n))

\* bucket_categories(['Dog', 'Cat', 'Bird'], 2): three values with one
\* occurrence each, the tie broken alphabetically
C14_Witness ==
    /\ HelperReturned("bucket_categories")
    /\ call.values = <<"Dog", "Cat", "Bird">>
    /\ call.top_n = 2
    /\ call_ret = Return([v \in {"Bird", "Cat", "Dog"} |-> IF v = "Dog" THEN "Other" ELSE v])

\* C15: the keys of the mapping are the distinct values of the list when the
\* list is non-empty and top_n >= 1; the mapping is empty when the list is
\* empty or top_n <= 0
C15_KeySet ==
    HelperReturned("bucket_categories") =>
        /\ call_ret.kind = "return"
        /\ DOMAIN call_ret.value =
              IF call.values = <<>> \/ call.top_n <= 0
              THEN {}
              ELSE DistinctValues(call.values)

\* a list with a repeated value and top_n = 1: both values are keys, one of
\* them mapped to 'Other'
C15_Witness ==
    /\ HelperReturned("bucket_categories")
    /\ call.values = <<"Dog", "Cat", "Cat">>
    /\ call.top_n = 1
    /\ DOMAIN call_ret.value = {"Cat", "Dog"}
    /\ call_ret.value["Dog"] = "Other"

-----------------------------------------------------------------------------
(* Properties of normalize_dataframe *)

NormalizeDone == ret_ref # Pending

NormalizeReturned == ret_ref.kind = "return"

\* the input batch and the returned batch, as they are now
InputBatch == heap[arg_ref]
ResultBatch == heap[ret_ref.value]

\* C16: normalize_dataframe does not mutate its input (same columns and values
\* after the call as before), and the returned batch is an object of its own:
\* an assignment made later to either batch is not visible in the other
C16_NoSharedState ==
    NormalizeDone =>
        /\ InputBatch = expected.arg
        /\ NormalizeReturned =>
              /\ ret_ref.value # arg_ref
              /\ ResultBatch = expected.ret

\* the input was assigned to after the call, and the result still holds the
\* breed it was returned with
C16_Witness ==
    /\ NormalizeReturned
    /\ Len(InputBatch.rows) = 2
    /\ InputBatch.rows[1]["breed"] = Overwrite
    /\ ResultBatch.rows[1]["breed"] = Str("Labrador Retriever Mix")
    /\ ResultBatch.rows[1]["age_weeks"] = Float(104286, 1000)

ColumnSet(d) == {d.columns[k] : k \in 1..Len(d.columns)}

HasRequired(d) == RequiredSet \subseteq ColumnSet(d)

\* no cell of either batch was assigned to since the call
Untouched ==
    /\ \A i \in 1..Len(InputBatch.rows) : InputBatch.rows[i]["breed"] # Overwrite
    /\ NormalizeReturned =>
          \A i \in 1..Len(ResultBatch.rows) : ResultBatch.rows[i]["breed"] # Overwrite

C18_MissingColumns ==
    (NormalizeDone /\ ~HasRequired(InputBatch)) =>
        /\ ret_ref.kind = "raise"
        /\ ret_ref.exc = "ValueError"
        /\ \A c \in RequiredSet \ ColumnSet(InputBatch) : str_contains(ret_ref.msg, c)
        /\ Len(heap) = 1
        /\ InputBatch = expected.arg

\* a one-row batch without age_upon_outcome and location_lat
C18_Witness ==
    /\ NormalizeDone
    /\ RequiredSet \ ColumnSet(InputBatch) = {"age_upon_outcome", "location_lat"}
    /\ Len(InputBatch.rows) = 1
    /\ InputBatch.rows[1]["breed"] # Overwrite
    /\ ret_ref = Raise("ValueError",
                       "Missing required columns: age_upon_outcome, location_lat")

\* the derived cells of a result row are the parser results for the input row
DerivedFrom(result_row, input_row) ==
    /\ result_row["age_weeks"] = parse_age_to_weeks(input_row["age_upon_outcome"]).value
    /\ <<result_row["sex"], result_row["intact_status"]>>
          = normalize_sex_intact(input_row["sex_upon_outcome"])
    /\ result_row["valid_coords"]
          = PyBool(validate_coordinates(input_row["location_lat"],
                                        input_row["location_long"]) = Return(TRUE))

RowsDerived ==
    /\ Len(ResultBatch.rows) = Len(InputBatch.rows)
    /\ \A i \in 1..Len(InputBatch.rows) :
          DerivedFrom(ResultBatch.rows[i], InputBatch.rows[i])

\* C19: for every batch with the four required columns, whatever the values of
\* its rows, the call completes without error and the derived fields of each
\* row are the parser results for that row alone
C19_RowwiseTotal ==
    (NormalizeDone /\ HasRequired(InputBatch)) =>
        /\ NormalizeReturned
        /\ Untouched => RowsDerived

\* a row holds a coordinate that float() cannot convert without overflow
OverflowRow(row) == CoordOutcome(row).kind = "raise"

\* what the code does: C19 for every batch without such a row, OverflowError
\* for a batch with one
C19_RowwiseExceptOverflow ==
    (NormalizeDone /\ HasRequired(InputBatch)) =>
        IF \E i \in 1..Len(InputBatch.rows) : OverflowRow(InputBatch.rows[i])
        THEN ret_ref.kind = "raise" /\ ret_ref.exc = "OverflowError"
        ELSE NormalizeReturned /\ (Untouched => RowsDerived)

\* a well-formed row followed by a row whose latitude is 10**400: the call
\* has raised OverflowError
C19_Witness ==
    /\ NormalizeDone
    /\ HasRequired(InputBatch)
    /\ Len(InputBatch.rows) = 2
    /\ InputBatch.rows[1] = GoodRow
    /\ InputBatch.rows[2] = [GoodRow EXCEPT !["location_lat"] = BigInt]
    /\ ret_ref.kind = "raise"
    /\ ret_ref.exc = "OverflowError"

\* a well-formed row followed by a row malformed in every field: the call
\* returned, the second row null / 'Unknown' / False, the first as if alone
C19_MalformedWitness ==
    /\ NormalizeReturned
    /\ Untouched
    /\ Len(InputBatch.rows) = 2
    /\ InputBatch.rows[1] = GoodRow
    /\ InputBatch.rows[2]["animal_id"] = Str("A009")
    /\ ResultBatch.rows[1]["age_weeks"] = Float(104286, 1000)
    /\ ResultBatch.rows[1]["valid_coords"] = PyBool(TRUE)
    /\ ResultBatch.rows[2]["age_weeks"] = None
    /\ ResultBatch.rows[2]["sex"] = Str("Unknown")
    /\ ResultBatch.rows[2]["valid_coords"] = PyBool(FALSE)

-----------------------------------------------------------------------------
(* Row order through the pipeline *)

\* sub is obtained from full by leaving rows out: there are strictly
\* increasing positions of full that hold the rows of sub
IsSubsequence(sub, full) ==
    \E pos \in [1..Len(sub) -> 1..Len(full)] :
        /\ \A j \in 1..Len(sub) : full[pos[j]] = sub[j]
        /\ \A j \in 1..(Len(sub) - 1) : pos[j] < pos[j + 1]

\* C20: row i of normalize_dataframe(batch) is derived from row i of batch,
\* and the rows apply_rescue_filter returns are a subsequence of the rows of
\* its input, in the same relative order, with their field values unaltered
C20_OrderPreserved ==
    /\ norm_ret.kind = "return" =>
          /\ Len(norm_ret.value.rows) = Len(raw_df.rows)
          /\ \A i \in 1..Len(raw_df.rows) :
                /\ \A c \in DOMAIN raw_df.rows[i] :
                      norm_ret.value.rows[i][c] = raw_df.rows[i][c]
                /\ norm_ret.value.rows[i]["age_weeks"]
                      = parse_age_to_weeks(raw_df.rows[i]["age_upon_outcome"]).value
    /\ (raw_df # None /\ filter_ret.kind = "return") =>
          IsSubsequence(filter_ret.value.rows, df.rows)

\* A003, A002, A001 loaded in this order: disaster returns A003 then A002
C20_Witness ==
    /\ raw_df # None
    /\ Len(raw_df.rows) = 3
    /\ norm_ret.kind = "return"
    /\ filter_ret.kind = "return"
    /\ filter_case # None
    /\ filter_case.name = "disaster"
    /\ AnimalIds(df) = <<"A003", "A002", "A001">>
    /\ AnimalIds(filter_ret.value) = <<"A003", "A002">>

\* the distinct values of the call that the returned mapping maps to themselves
MappedToSelf == {v \in DistinctValues(call.values) : call_ret.value[v] = v}

Smaller(a, b) == IF a < b THEN a ELSE b

\* C30 as stated: for a non-empty list and top_n >= 1, exactly
\* min(top_n, number of distinct values) distinct values are mapped to
\* themselves, and each of them occurs at least as often as every value that
\* is not
C30_KeptCount ==
    (HelperReturned("bucket_categories") /\ call.values # <<>> /\ call.top_n >= 1) =>
        /\ Cardinality(MappedToSelf)
              = Smaller(call.top_n, Cardinality(DistinctValues(call.values)))
        /\ \A kept \in MappedToSelf :
              \A other \in DistinctValues(call.values) \ MappedToSelf :
                  Occurrences(call.values, kept) >= Occurrences(call.values, other)

\* the values mapped to themselves, without a literal 'Other' that ranks
\* outside the first top_n
KeptInTop ==
    {v \in MappedToSelf : v # "Other" \/ Rank(v, call.values) < call.top_n}

\* C30, amended: the same, not counting a literal 'Other' that ranks outside
\* the first top_n and is mapped to 'Other' like every value outside them
C30_KeptCountBesidesOther ==
    (HelperReturned("bucket_categories") /\ call.values # <<>> /\ call.top_n >= 1) =>
        /\ Cardinality(KeptInTop)
              = Smaller(call.top_n, Cardinality(DistinctValues(call.values)))
        /\ \A kept \in KeptInTop :
              \A other \in DistinctValues(call.values) \ KeptInTop :
                  Occurrences(call.values, kept) >= Occurrences(call.values, other)

\* ['Dog', 'Dog', 'Cat', 'Other'] with top_n = 2: Dog and Cat are kept, and
\* 'Other' is mapped to itself as well
C30_Witness ==
    /\ HelperReturned("bucket_categories")
    /\ call.values = <<"Dog", "Dog", "Cat", "Other">>
    /\ call.top_n = 2
    /\ MappedToSelf = {"Dog", "Cat", "Other"}
    /\ KeptInTop = {"Dog", "Cat"}

-----------------------------------------------------------------------------
(* Filtering twice *)

\* C29: when apply_rescue_filter(batch, d) returns, filtering its result by d
\* again returns that same result, and the call leaves the input batch with
\* the rows and values it had
C29_Idempotent ==
    [][ (filter_ret = Pending /\ filter_ret'.kind = "return") =>
            /\ apply_rescue_filter(filter_ret'.value, filter_type') = filter_ret'
            /\ df' = df ]_vars

\* mountain keeps two of three rows, and keeps both when applied again
C29_Witness ==
    /\ raw_df # None
    /\ filter_ret.kind = "return"
    /\ filter_case # None
    /\ filter_case.name = "mountain"
    /\ Len(df.rows) = 3
    /\ Len(filter_ret.value.rows) = 2
    /\ Len(apply_rescue_filter(filter_ret.value, filter_type).value.rows) = 2

-----------------------------------------------------------------------------
(* Properties of AnimalShelter *)

Called(name) == op # None /\ op.name = name

\* data is a record with a non-empty animal_id
HasAnimalId(data) ==
    /\ isinstance_dict(data)
    /\ "animal_id" \in Keys(data)
    /\ data.items["animal_id"] \notin {None, Str("")}

\* some document of docs carries this animal_id
Holds(docs, id) ==
    \E i \in 1..Len(docs) : "animal_id" \in DOMAIN docs[i] /\ docs[i]["animal_id"] = id

\* the store raised under the last call
StoreFailed == op.raised \in {"PyMongoError", "OperationFailure", "WriteError"}

\* C21: create returns True exactly when data is a record with a non-empty
\* animal_id, no stored document has that animal_id and the store did not
\* fail; it then adds exactly one document, the data; in every other case it
\* returns False and the collection is unchanged
C21_InsertIfAbsent ==
    Called("create") =>
        /\ op_ret.value = ( /\ HasAnimalId(op.data)
                            /\ ~Holds(op.before, op.data.items["animal_id"])
                            /\ ~StoreFailed )
        /\ op_ret.value =>
              /\ Len(collection) = Len(op.before) + 1
              /\ SubSeq(collection, 1, Len(op.before)) = op.before
              /\ \A k \in Keys(op.data) :
                    collection[Len(collection)][k] = op.data.items[k]
        /\ ~op_ret.value => collection = op.before

\* A2 created next to a stored A1, then refused as a duplicate
C21_Witness ==
    /\ Called("create")
    /\ HasAnimalId(op.data)
    /\ op.data.items["animal_id"] = Str("A2")
    /\ op_ret.value = FALSE
    /\ op.raised = "none"
    /\ Len(collection) = 2
    /\ collection[1]["animal_id"] = Str("A1")
    /\ collection[2]["animal_id"] = Str("A2")

\* x is null or not a record
NotARecord(x) == x = None \/ ~isinstance_dict(x)

\* C22: read with a null or non-record query returns [], update with a null
\* or non-record query or update data returns 0, delete with a null or
\* non-record query returns 0; each call returns and leaves the collection
\* as it was
C22_InvalidArguments ==
    /\ op_ret.kind # "raise"
    /\ (Called("read") /\ NotARecord(op.query)) =>
          op_ret.value = <<>> /\ collection = op.before
    /\ (Called("update") /\ (NotARecord(op.query) \/ NotARecord(op.update_data))) =>
          op_ret.value = 0 /\ collection = op.before
    /\ (Called("delete") /\ NotARecord(op.query)) =>
          op_ret.value = 0 /\ collection = op.before

\* the same, but for read given a non-record that is empty ('' or [])
C22_ExceptEmptyRead ==
    /\ op_ret.kind # "raise"
    /\ (Called("read") /\ NotARecord(op.query)) =>
          /\ Truthy(op.query) => op_ret.value = <<>>
          /\ collection = op.before
    /\ (Called("update") /\ (NotARecord(op.query) \/ NotARecord(op.update_data))) =>
          op_ret.value = 0 /\ collection = op.before
    /\ (Called("delete") /\ NotARecord(op.query)) =>
          op_ret.value = 0 /\ collection = op.before

\* read([]) on a collection of two documents
C22_Witness ==
    /\ Called("read")
    /\ op.query = EmptyList
    /\ Len(op.before) = 2
    /\ op.raised = "none"

\* update(find_by_id, 'string_instead_of_dict') on a document it matches
C22_UpdateWitness ==
    /\ Called("update")
    /\ op.query = Dict("animal_id" :> Str("A1"))
    /\ op.update_data = Str("string_instead_of_dict")
    /\ Holds(op.before, Str("A1"))
    /\ op_ret.value = 0

\* the positions of docs whose document has every field value query asks for
Matched(docs, query) ==
    {i \in 1..Len(docs) :
        \A k \in Keys(query) :
            IF query.items[k] = None
            THEN k \notin DOMAIN docs[i] \/ docs[i][k] = None
            ELSE k \in DOMAIN docs[i] /\ docs[i][k] = query.items[k]}

RECURSIVE Without(_, _, _)
\* docs without the documents at the positions gone, from position i on
Without(docs, gone, i) ==
    IF i > Len(docs) THEN <<>>
    ELSE (IF i \in gone THEN <<>> ELSE <<docs[i]>>) \o Without(docs, gone, i + 1)

\* the positions a query matches: none when the query is no record
MatchedBy(docs, query) == IF isinstance_dict(query) THEN Matched(docs, query) ELSE {}

\* C23, for every query q: delete(q), the store answering, returns the number
\* of documents that matched q and removes exactly those; read(q) right
\* afterwards returns []; when nothing matched it returns 0 and the
\* collection is unchanged
C23_DeleteEvery ==
    (Called("delete") /\ ~StoreFailed) =>
        /\ op_ret.value = Cardinality(MatchedBy(op.before, op.query))
        /\ collection = Without(op.before, MatchedBy(op.before, op.query), 1)
        /\ read(collection, op.query, TRUE).ret = <<>>
        /\ MatchedBy(op.before, op.query) = {} =>
              op_ret.value = 0 /\ collection = op.before

\* delete([]) on a stored document: nothing matched, nothing removed
C23_EmptyQueryWitness ==
    /\ Called("delete")
    /\ op.query = EmptyList
    /\ Len(op.before) = 1
    /\ op_ret.value = 0
    /\ collection = op.before

\* C23 for record queries: delete(q), q a record and the store answering, returns the number of
\* documents that matched q and removes exactly those, the others staying as
\* they were and in their order; read(q) right afterwards returns []; when
\* nothing matched it returns 0 and the collection is unchanged
C23_DeleteMatching ==
    (Called("delete") /\ isinstance_dict(op.query) /\ ~StoreFailed) =>
        /\ op_ret.value = Cardinality(Matched(op.before, op.query))
        /\ collection = Without(op.before, Matched(op.before, op.query), 1)
        /\ read(collection, op.query, TRUE).ret = <<>>
        /\ Matched(op.before, op.query) = {} =>
              op_ret.value = 0 /\ collection = op.before

\* delete({'name': 'Rex'}) takes Rex and leaves Max
C23_Witness ==
    /\ Called("delete")
    /\ op.query = Dict("name" :> Str("Rex"))
    /\ Len(op.before) = 2
    /\ op_ret.value = 1
    /\ Len(collection) = 1
    /\ "name" \in DOMAIN collection[1]
    /\ collection[1]["name"] = Str("Max")

\* both documents match and both go
C23_BothWitness ==
    /\ Called("delete")
    /\ op.query = Dict("name" :> Str("Rex"))
    /\ op_ret.value = 2
    /\ collection = <<>>

\* some key of the record starts with '$'
HasDollarKey(record) == \E k \in Keys(record) : SubSeq(k, 1, 1) = "$"

\* the fields an update document gives a value to, and those it removes
FieldsSet(update_data) ==
    IF ~HasDollarKey(update_data) THEN update_data.items
    ELSE IF "$set" \in Keys(update_data) THEN update_data.items["$set"].items
    ELSE EmptyDoc
FieldsUnset(update_data) ==
    IF "$unset" \in Keys(update_data) THEN DOMAIN update_data.items["$unset"].items
    ELSE {}

\* doc with those fields given their values and removed
Patched(doc, update_data) ==
    [k \in (DOMAIN doc \cup DOMAIN FieldsSet(update_data)) \ FieldsUnset(update_data) |->
        IF k \in DOMAIN FieldsSet(update_data) THEN FieldsSet(update_data)[k] ELSE doc[k]]

C26_OperatorWitness ==
    /\ Called("update")
    /\ op.update_data = Dict("$set" :> Dict("name" :> Str("Max")))
    /\ op.sent = op.update_data
    /\ op.query = Dict("animal_id" :> Str("A1"))
    /\ Len(op.before) = 2
    /\ op_ret.value = 1

\* C27: no two stored documents have the same animal_id
C27_UniqueAnimalId ==
    \A i, j \in 1..Len(collection) :
        ( /\ i # j
          /\ "animal_id" \in DOMAIN collection[i]
          /\ "animal_id" \in DOMAIN collection[j] )
            => collection[i]["animal_id"] # collection[j]["animal_id"]

\* A1 and A2 were created; update({}, {'animal_id': 'A1'}) changed one of them
C27_Witness ==
    /\ Called("update")
    /\ op.update_data = Dict("animal_id" :> Str("A1"))
    /\ Len(op.before) = 2
    /\ op.before[1]["animal_id"] # op.before[2]["animal_id"]
    /\ op_ret.value = 1
    /\ collection[1]["animal_id"] = Str("A1")
    /\ collection[2]["animal_id"] = Str("A1")

\* without an update that assigns animal_id, a call leaves the ids distinct
C27_UniqueUnlessReassigned ==
    [][ ( /\ C27_UniqueAnimalId
          /\ ~(op'.name = "update" /\ op'.update_data = Dict("animal_id" :> Str("A1"))) )
        => C27_UniqueAnimalId' ]_vars

\* both clients are back from create
BothDone == procs # <<>> /\ \A c \in Clients : procs[c].pc = "done"

\* both clients' records carry the animal_id id
SameAnimalId(id) == \A c \in Clients : dict_get(procs[c].data, "animal_id") = id

\* C28: when two clients create documents with the same animal_id, not yet
\* stored, at most one of the calls returns True and at most one document
\* with that animal_id is in the collection afterwards
C28_AtMostOneCreate ==
    \A id \in {Str("A1"), Str("A2")} :
        (BothDone /\ SameAnimalId(id) /\ ~Holds(op.before, id)) =>
            /\ Cardinality({c \in Clients : procs[c].ret = Return(TRUE)}) <= 1
            /\ Cardinality({i \in 1..Len(collection) :
                              collection[i]["animal_id"] = id}) <= 1

\* both calls found nothing, both inserted, both returned True
C28_Witness ==
    /\ BothDone
    /\ SameAnimalId(Str("A1"))
    /\ ~Holds(op.before, Str("A1"))
    /\ \A c \in Clients : procs[c].ret = Return(TRUE)
    /\ Cardinality({i \in 1..Len(collection) : collection[i]["animal_id"] = Str("A1")}) = 2

\* a client that finds the other's document returns False
C28_SerialWitness ==
    /\ BothDone
    /\ SameAnimalId(Str("A1"))
    /\ ~Holds(op.before, Str("A1"))
    /\ procs[1].ret = Return(TRUE)
    /\ procs[2].ret = Return(FALSE)
    /\ Cardinality({i \in 1..Len(collection) : collection[i]["animal_id"] = Str("A1")}) = 1

-----------------------------------------------------------------------------
(* Properties of the login gate *)

C25_Authenticated ==
    HelperReturned("is_authenticated") =>
        call_ret.value = ( /\ call.auth_state.t = "dict"
                           /\ "authenticated" \in DOMAIN call.auth_state.items
                           /\ call.auth_state.items["authenticated"].t = "bool"
                           /\ call.auth_state.items["authenticated"].v )

\* {'authenticated': 1, 'username': 'admin'} is not authenticated
C25_Witness ==
    /\ HelperReturned("is_authenticated")
    /\ call.auth_state = Dict(("authenticated" :> PyInt(1)) @@ ("username" :> Str("admin")))
    /\ call_ret.value = FALSE

\* extra keys next to a true entry change nothing
C25_ExtraKeysWitness ==
    /\ HelperReturned("is_authenticated")
    /\ call.auth_state.t = "dict"
    /\ DOMAIN call.auth_state.items = {"authenticated", "username", "login_time"}
    /\ call_ret.value = TRUE

=============================================================================
